---------------------------- MODULE Spec2Model ----------------------------
(***************************************************************************)
(* PinyinTester: the spaced-repetition flashcard engine of                 *)
(* src/pinyinTester.py (Model, Controller), with the storage layer of      *)
(* src/chineseDatabase.py and src/database.py.                             *)
(*                                                                         *)
(* Conventions of the model                                                *)
(*  - A datetime is a natural number of clock ticks; TicksPerDay ticks     *)
(*    make one day (a tick is six hours).  timedelta(days=k) is            *)
(*    k * TicksPerDay.                                                     *)
(*  - A TEXT column holding a time is a record [kind, t]: kind "ts" is a   *)
(*    'YYYY-MM-DD HH:MM:SS' string of time t, kind "0" is the string "0",  *)
(*    kind "null" is SQL NULL as the driver hands it to Python.            *)
(*  - An ease factor is kept in exact hundredths (2.5 is 250).  The code   *)
(*    keeps it in an IEEE double, so a product interval * ease that is a   *)
(*    whole number in exact arithmetic may come out a hair below it        *)
(*    (10 * 1.8999999999999997); the parameter fp of updateDueDate says    *)
(*    whether it does.                                                     *)
(*  - A Python str is a sequence of one-character tokens; the vowel a      *)
(*    carrying tone mark 1 is the single token "a^1", and so on.           *)
(*  - A call that raises returns a record whose exc field names the        *)
(*    exception.                                                           *)
(***************************************************************************)
EXTENDS Integers, Sequences, FiniteSets, TLC

\* ------------------------------------------------------------------ bounds
\* Largest clock value of the session (ticks).
MaxTime == 2
\* Largest number of answers submitted in one run of the session.
MaxAnswers == 2
\* Largest number of phrases deleted in one run of the session.
MaxDeletes == 1
\* Largest timestamp (ticks) handed to updateDueDate when it is applied alone.
MaxFnTime == 9
\* Largest elapsed/ease inputs of the scheduling functions applied alone.
MaxFnEase == 270
\* The longest text drawn for a text function.
MaxInputLen == 4
\* The most elements in a drawn markup.
MaxNodes == 3
\* The longest elapsed time (seconds) handed to _assessQuality applied alone.
MaxDelta == 6
\* The longest response time (seconds) of a stored sample drawn for it.
MaxSampleTime == 4

\* ------------------------------------------------------- program constants
\* 86400 seconds per day in updateDueDate, at the granularity of the clock.
TicksPerDay == 4
\* easeFactor REAL DEFAULT 2.5
DefaultEase == 250
\* max(1.3, ...) in updateEaseFactor
MinEase == 130

\* baseClasses.QUALITY: ZERO .. FIVE
QUALITY == 0 .. 5
\* A value that is no member of QUALITY (reaches the `case _` branches).
NoQuality == 0 - 1

\* baseClasses.ANSWER_STATE
ANSWER_STATE == {"CORRECT", "WRONG", "HOMONYM"}

\* -------------------------------------------------------------- time text
Null == [kind |-> "null", t |-> 0]
Zero == [kind |-> "0", t |-> 0]

\* Database.formatTimeToStr: datetime -> 'YYYY-MM-DD HH:MM:SS'
formatTimeToStr(time) == [kind |-> "ts", t |-> time]

\* Database.formatTimeToDateTime: parse.parse(...)[0]; parse returns None for
\* a text that is no timestamp, and None[0] raises TypeError.
formatTimeToDateTime(time) ==
    IF time.kind = "ts" THEN [exc |-> "none", t |-> time.t]
                        ELSE [exc |-> "TypeError", t |-> 0]

\* ------------------------------------------------------------- scheduling
easeDelta(quality) ==
    CASE quality = 5 -> 10
      [] quality = 4 -> 0
      [] quality = 3 -> 0 - 14
      [] quality = 2 -> 0 - 32
      [] quality = 1 -> 0 - 54
      [] quality = 0 -> 0 - 80

Max(a, b) == IF a >= b THEN a ELSE b

\* Mutant: the clamp at 1.3 is dropped.
updateEaseFactorNoClamp(oldEaseFactor, quality) ==
    IF quality \in QUALITY THEN oldEaseFactor + easeDelta(quality)
                           ELSE oldEaseFactor

\* Mutant: quality THREE is charged 0.15 instead of 0.14.
updateEaseFactorOff(oldEaseFactor, quality) ==
    IF quality \in QUALITY
    THEN Max(MinEase, oldEaseFactor + (IF quality = 3 THEN 0 - 15 ELSE easeDelta(quality)))
    ELSE oldEaseFactor

\* Model.updateEaseFactor
updateEaseFactor(oldEaseFactor, quality) ==
    IF quality \in QUALITY THEN Max(MinEase, oldEaseFactor + easeDelta(quality))
                           ELSE oldEaseFactor

\* timedelta.days and timedelta.seconds of (a - b): days is the floor, seconds
\* the non-negative remainder.
deltaDays(a, b) == (a - b) \div TicksPerDay
deltaSeconds(a, b) == (a - b) % TicksPerDay

\* round(delta.seconds / 86400): Python rounds to nearest, a tie (exactly half
\* a day) to the even neighbour 0.
roundDayFraction(s) == IF 2 * s > TicksPerDay THEN 1 ELSE 0

\* int(interval * newEase): truncation toward zero of the double product.
\* fp = 1: the double is a hair nearer zero than the exact product.
intOfProduct(interval, newEase, fp) ==
    LET p == interval * newEase
        a == IF p >= 0 THEN p ELSE 0 - p
        m == IF fp = 1 /\ a % 100 = 0 /\ a > 0 THEN (a \div 100) - 1 ELSE a \div 100
    IN  IF p >= 0 THEN m ELSE 0 - m

\* Mutant: a failing grade no longer resets the interval.
updateDueDateNoFail(lastTimeSeen, oldDueDate, oldEaseFactor, quality, now, fp) ==
    IF lastTimeSeen = Zero \/ oldDueDate = Zero
    THEN [exc |-> "none", t |-> now + TicksPerDay]
    ELSE [exc |-> "none", t |-> now + 6 * TicksPerDay]

\* Mutant: the never-seen test is dropped (the sentinel is parsed as a time).
updateDueDateNoSentinel(lastTimeSeen, oldDueDate, oldEaseFactor, quality, now, fp) ==
    IF quality \in {0, 1, 2}
    THEN [exc |-> "none", t |-> now + TicksPerDay]
    ELSE [exc |-> "none", t |-> now + 6 * TicksPerDay]

\* Mutant: the difference is taken the other way round (lts - odd).
intervalDaysSwapped(odd, lts) ==
    deltaDays(lts, odd) + roundDayFraction(deltaSeconds(lts, odd))

\* interval = delta.days + round(delta.seconds / 86400) for delta = odd - lts
intervalDays(odd, lts) == deltaDays(odd, lts) + roundDayFraction(deltaSeconds(odd, lts))

\* The last three statements of updateDueDate, with `interval` computed.
dueFromInterval(interval, newEase, now, fp) ==
    IF interval = 1
    THEN [exc |-> "none", t |-> now + 6 * TicksPerDay]
    ELSE [exc |-> "none", t |-> now + intOfProduct(interval, newEase, fp) * TicksPerDay]

\* Mutant: the first-graduation test is dropped.
dueFromParsedNoSix(lts, odd, newEase, now, fp) ==
    IF lts.exc # "none" \/ odd.exc # "none"
    THEN [exc |-> "TypeError", t |-> 0]
    ELSE [exc |-> "none",
          t |-> now + intOfProduct(intervalDays(odd.t, lts.t), newEase, fp) * TicksPerDay]

\* updateDueDate from the two formatTimeToDateTime calls on, lts and odd being
\* what they return.
dueFromParsed(lts, odd, newEase, now, fp) ==
    IF lts.exc # "none" \/ odd.exc # "none"
    THEN [exc |-> "TypeError", t |-> 0]
    ELSE dueFromInterval(intervalDays(odd.t, lts.t), newEase, now, fp)

\* Mutant: the interval is multiplied by the old ease factor.
updateDueDateOldEase(lastTimeSeen, oldDueDate, oldEaseFactor, quality, now, fp) ==
    IF quality \in {0, 1, 2}
    THEN [exc |-> "none", t |-> now + TicksPerDay]
    ELSE IF lastTimeSeen = Zero \/ oldDueDate = Zero
    THEN [exc |-> "none", t |-> now + TicksPerDay]
    ELSE dueFromParsed(formatTimeToDateTime(lastTimeSeen), formatTimeToDateTime(oldDueDate),
                       oldEaseFactor, now, fp)

\* Model.updateDueDate; now is the value of datetime.datetime.now().
updateDueDate(lastTimeSeen, oldDueDate, oldEaseFactor, quality, now, fp) ==
    IF quality \in {0, 1, 2}
    THEN [exc |-> "none", t |-> now + TicksPerDay]
    ELSE IF lastTimeSeen = Zero \/ oldDueDate = Zero
    THEN [exc |-> "none", t |-> now + TicksPerDay]
    ELSE dueFromParsed(formatTimeToDateTime(lastTimeSeen), formatTimeToDateTime(oldDueDate),
                       updateEaseFactor(oldEaseFactor, quality), now, fp)

\* ------------------------------------------------------------------ pinyin
\* Model.DIACRITIC_TO_TONE ("a^1" is a-macron, "V^4" is capital u-diaeresis-grave)
DIACRITIC_TO_TONE ==
    ("a^1" :> 1) @@ ("e^1" :> 1) @@ ("i^1" :> 1) @@ ("o^1" :> 1) @@ ("u^1" :> 1) @@ ("v^1" :> 1) @@
    ("A^1" :> 1) @@ ("E^1" :> 1) @@ ("I^1" :> 1) @@ ("O^1" :> 1) @@ ("U^1" :> 1) @@ ("V^1" :> 1) @@
    ("a^2" :> 2) @@ ("e^2" :> 2) @@ ("i^2" :> 2) @@ ("o^2" :> 2) @@ ("u^2" :> 2) @@ ("v^2" :> 2) @@
    ("A^2" :> 2) @@ ("E^2" :> 2) @@ ("I^2" :> 2) @@ ("O^2" :> 2) @@ ("U^2" :> 2) @@ ("V^2" :> 2) @@
    ("a^3" :> 3) @@ ("e^3" :> 3) @@ ("i^3" :> 3) @@ ("o^3" :> 3) @@ ("u^3" :> 3) @@ ("v^3" :> 3) @@
    ("A^3" :> 3) @@ ("E^3" :> 3) @@ ("I^3" :> 3) @@ ("O^3" :> 3) @@ ("U^3" :> 3) @@ ("V^3" :> 3) @@
    ("a^4" :> 4) @@ ("e^4" :> 4) @@ ("i^4" :> 4) @@ ("o^4" :> 4) @@ ("u^4" :> 4) @@ ("v^4" :> 4) @@
    ("A^4" :> 4) @@ ("E^4" :> 4) @@ ("I^4" :> 4) @@ ("O^4" :> 4) @@ ("U^4" :> 4) @@ ("V^4" :> 4)

\* Model.TONE1_DIACRITICS_TO_VOWEL .. TONE4_DIACRITICS_TO_VOWEL
TONE1_DIACRITICS_TO_VOWEL ==
    ("a^1" :> "a") @@ ("e^1" :> "e") @@ ("i^1" :> "i") @@ ("o^1" :> "o") @@ ("u^1" :> "u") @@ ("v^1" :> "v") @@
    ("A^1" :> "A") @@ ("E^1" :> "E") @@ ("I^1" :> "I") @@ ("O^1" :> "O") @@ ("U^1" :> "U") @@ ("V^1" :> "V")

TONE2_DIACRITICS_TO_VOWEL ==
    ("a^2" :> "a") @@ ("e^2" :> "e") @@ ("i^2" :> "i") @@ ("o^2" :> "o") @@ ("u^2" :> "u") @@ ("v^2" :> "v") @@
    ("A^2" :> "A") @@ ("E^2" :> "E") @@ ("I^2" :> "I") @@ ("O^2" :> "O") @@ ("U^2" :> "U") @@ ("V^2" :> "V")

TONE3_DIACRITICS_TO_VOWEL ==
    ("a^3" :> "a") @@ ("e^3" :> "e") @@ ("i^3" :> "i") @@ ("o^3" :> "o") @@ ("u^3" :> "u") @@ ("v^3" :> "v") @@
    ("A^3" :> "A") @@ ("E^3" :> "E") @@ ("I^3" :> "I") @@ ("O^3" :> "O") @@ ("U^3" :> "U") @@ ("V^3" :> "V")

TONE4_DIACRITICS_TO_VOWEL ==
    ("a^4" :> "a") @@ ("e^4" :> "e") @@ ("i^4" :> "i") @@ ("o^4" :> "o") @@ ("u^4" :> "u") @@ ("v^4" :> "v") @@
    ("A^4" :> "A") @@ ("E^4" :> "E") @@ ("I^4" :> "I") @@ ("O^4" :> "O") @@ ("U^4" :> "U") @@ ("V^4" :> "V")

\* The digit character of a tone, as the f-string writes it.
toneDigit(tone) ==
    CASE tone = 1 -> "1" [] tone = 2 -> "2" [] tone = 3 -> "3"
      [] tone = 4 -> "4" [] tone = 5 -> "5"

\* The vowel the `match tone` statement appends for a tone-marked character.
diacriticVowel(c) ==
    CASE DIACRITIC_TO_TONE[c] = 1 -> TONE1_DIACRITICS_TO_VOWEL[c]
      [] DIACRITIC_TO_TONE[c] = 2 -> TONE2_DIACRITICS_TO_VOWEL[c]
      [] DIACRITIC_TO_TONE[c] = 3 -> TONE3_DIACRITICS_TO_VOWEL[c]
      [] DIACRITIC_TO_TONE[c] = 4 -> TONE4_DIACRITICS_TO_VOWEL[c]

\* The while loop of convertDiacriticToNumber from index i with `result` built
\* so far: a plain character is copied, the first tone-marked one is replaced,
\* the rest is appended and the loop ends.
RECURSIVE convertLoop(_, _, _)
convertLoop(pinyin, i, result) ==
    IF i > Len(pinyin) THEN result \o <<"5">>
    ELSE IF pinyin[i] \notin DOMAIN DIACRITIC_TO_TONE
    THEN convertLoop(pinyin, i + 1, Append(result, pinyin[i]))
    ELSE result \o <<diacriticVowel(pinyin[i])>> \o SubSeq(pinyin, i + 1, Len(pinyin))
         \o <<toneDigit(DIACRITIC_TO_TONE[pinyin[i]])>>

\* Model.convertDiacriticToNumber.  For the empty string the loop body never
\* runs and `tone` is read unbound.
convertDiacriticToNumber(pinyin) ==
    IF Len(pinyin) = 0 THEN [exc |-> "UnboundLocalError", s |-> <<>>]
    ELSE [exc |-> "none", s |-> convertLoop(pinyin, 1, <<>>)]

\* Markup is the sequence of its elements in document order; an element is
\* [tag, none, string]: its tag ("span", another tag, or "text" for bare text),
\* and what BeautifulSoup's .string gives: None (none = TRUE, an element with
\* no child or several children) or its text.
Node(tag, string) == [tag |-> tag, none |-> FALSE, string |-> string]
NodeNoString(tag) == [tag |-> tag, none |-> TRUE, string |-> <<>>]

\* The for loop of getPinyinBetweenTags over the elements from index k.
RECURSIVE tagsLoop(_, _, _)
tagsLoop(markup, k, formattedAnswer) ==
    IF k > Len(markup) THEN [exc |-> "none", s |-> formattedAnswer]
    ELSE IF markup[k].tag # "span" THEN tagsLoop(markup, k + 1, formattedAnswer)
    ELSE IF markup[k].none THEN [exc |-> "TypeError", s |-> <<>>]
    ELSE IF convertDiacriticToNumber(markup[k].string).exc # "none"
    THEN [exc |-> convertDiacriticToNumber(markup[k].string).exc, s |-> <<>>]
    ELSE tagsLoop(markup, k + 1,
                  formattedAnswer \o convertDiacriticToNumber(markup[k].string).s)

\* Model.getPinyinBetweenTags
getPinyinBetweenTags(markup) == tagsLoop(markup, 1, <<>>)

\* str.lower() on one character
lowerChar(c) ==
    CASE c = "A" -> "a" [] c = "E" -> "e" [] c = "I" -> "i" [] c = "O" -> "o"
      [] c = "U" -> "u" [] c = "V" -> "v" [] c = "T" -> "t" [] c = "N" -> "n"
      [] c = "H" -> "h"
      [] c = "A^1" -> "a^1" [] c = "A^2" -> "a^2" [] c = "A^3" -> "a^3" [] c = "A^4" -> "a^4"
      [] c = "E^1" -> "e^1" [] c = "E^2" -> "e^2" [] c = "E^3" -> "e^3" [] c = "E^4" -> "e^4"
      [] c = "I^1" -> "i^1" [] c = "I^2" -> "i^2" [] c = "I^3" -> "i^3" [] c = "I^4" -> "i^4"
      [] c = "O^1" -> "o^1" [] c = "O^2" -> "o^2" [] c = "O^3" -> "o^3" [] c = "O^4" -> "o^4"
      [] c = "U^1" -> "u^1" [] c = "U^2" -> "u^2" [] c = "U^3" -> "u^3" [] c = "U^4" -> "u^4"
      [] c = "V^1" -> "v^1" [] c = "V^2" -> "v^2" [] c = "V^3" -> "v^3" [] c = "V^4" -> "v^4"
      [] OTHER -> c

\* str.lower()
lower(s) == [k \in 1 .. Len(s) |-> lowerChar(s[k])]

\* The characters kept by a filter, in order.
RECURSIVE keep(_, _)
keep(s, ok) ==
    IF Len(s) = 0 THEN <<>>
    ELSE IF s[1] \in ok THEN <<s[1]>> \o keep(Tail(s), ok) ELSE keep(Tail(s), ok)

\* The characters of the model's strings.
Digits == {"0", "1", "2", "3", "4", "5", "6", "7", "8", "9"}
Chars ==
    {"t", "a", "n", "i", "h", "o", "T", "A", " ", "\t"} \cup Digits
        \cup DOMAIN DIACRITIC_TO_TONE

\* userInput.replace(' ', ''): only the space character is removed.
removeSpaces(s) == keep(s, Chars \ {" "})

\* Mutant: the input is not lower-cased.
normalizeInputNoLower(userInput, ignoreTones) ==
    IF ignoreTones THEN keep(removeSpaces(userInput), Chars \ Digits)
                   ELSE removeSpaces(userInput)

\* Mutant: ignoreTones leaves the digits of the input in place.
normalizeInputKeepsDigits(userInput, ignoreTones) == removeSpaces(lower(userInput))

\* l(userInput.lower().replace(' ', '')), l dropping every digit when
\* ignoreTones is set.
normalizeInput(userInput, ignoreTones) ==
    IF ignoreTones THEN keep(removeSpaces(lower(userInput)), Chars \ Digits)
                   ELSE removeSpaces(lower(userInput))

\* l(Model.getPinyinBetweenTags(pinyin).lower())
lowerExpected(g, ignoreTones) ==
    IF g.exc # "none" THEN g
    ELSE [exc |-> "none",
          s |-> IF ignoreTones THEN keep(lower(g.s), Chars \ Digits) ELSE lower(g.s)]

normalizeExpected(pinyin, ignoreTones) ==
    lowerExpected(getPinyinBetweenTags(pinyin), ignoreTones)

\* ---------------------------------------------------------------- storage
\* HSK_LEVEL, cut to its first two members, in enumeration order.
learningLevels == <<"HSK_1", "HSK_2">>
Levels == {learningLevels[k] : k \in 1 .. Len(learningLevels)}

\* Model._getMaximums: the number of vocabulary words of each level.
maximums == [l \in Levels |-> IF l = "HSK_1" THEN 2 ELSE 1]

\* The pronunciation markups of the imported phrases.
pinyinTa1 == <<Node("span", <<"t", "a^1">>)>>
pinyinTa4 == <<Node("span", <<"t", "a^4">>)>>
pinyinCapTa1 == <<Node("span", <<"T", "a^1">>)>>

\* The columns an import fills (insertPhrase): four rows.  Rows 1, 2 and 4
\* share a logograph; rows 1 and 3 share a pronunciation markup; row 4 differs
\* from row 1 in letter case only.
PhraseIds == 1 .. 4
importedBand == <<"HSK_1", "HSK_1", "HSK_1", "HSK_2">>
importedOrdinalID == <<0, 0, 1, 0>>
importedSimplified == <<"she", "she", "he", "she">>
importedPinyin == <<pinyinTa1, pinyinTa4, pinyinTa1, pinyinCapTa1>>

\* A row of chinesePhrases as initializeDB's column defaults and insertPhrase
\* leave it: the three time columns are NULL.
importedRow(id) ==
    [id |-> id, band |-> importedBand[id], ordinalID |-> importedOrdinalID[id],
     simplified |-> importedSimplified[id], pinyin |-> importedPinyin[id],
     timesSeen |-> 0, timesCorrect |-> 0,
     lastTimeSeen |-> Null, lastTimeCorrect |-> Null, dueDate |-> Null,
     easeFactor |-> DefaultEase, deleted |-> 0]

\* The constructor of ChineseDataWithStats in the queries: the row without
\* its band, ordinalID and deleted columns.
ChineseDataWithStats(r) ==
    [id |-> r.id, simplified |-> r.simplified, pinyin |-> r.pinyin,
     timesSeen |-> r.timesSeen, timesCorrect |-> r.timesCorrect,
     lastTimeSeen |-> r.lastTimeSeen, lastTimeCorrect |-> r.lastTimeCorrect,
     dueDate |-> r.dueDate, easeFactor |-> r.easeFactor]

\* Python's None where a ChineseDataWithStats is expected.
None == [id |-> 0]

\* The ids of a set in ascending order (the order a query returns rows in).
RECURSIVE sorted(_)
sorted(ids) ==
    IF ids = {} THEN <<>>
    ELSE LET m == CHOOSE x \in ids : \A y \in ids : x <= y
         IN  <<m>> \o sorted(ids \ {m})

\* Mutant: the query forgets `deleted = 0`.
getPhrasesAll(table, level, maxOrdinalID) ==
    sorted({id \in PhraseIds :
              table[id].band = level /\ table[id].ordinalID <= maxOrdinalID})

\* ChineseDB.getPhrases (ids of the rows returned)
getPhrases(table, level, maxOrdinalID) ==
    sorted({id \in PhraseIds :
              /\ table[id].band = level
              /\ table[id].ordinalID <= maxOrdinalID
              /\ table[id].deleted = 0})

\* ChineseDB.getPhrasesWithSameLogographs (ids of the rows returned)
getPhrasesWithSameLogographs(table, simplified, originalID) ==
    sorted({id \in PhraseIds :
              /\ table[id].simplified = simplified
              /\ id # originalID
              /\ table[id].deleted = 0})

\* ChineseDB.getPhrasesWithSamePinyin (ids of the rows returned)
getPhrasesWithSamePinyin(table, pinyin, originalID) ==
    sorted({id \in PhraseIds :
              /\ table[id].pinyin = pinyin
              /\ id # originalID
              /\ table[id].deleted = 0})

\* ChineseDB.deletePhrase
deletePhrase(table, id) ==
    [table EXCEPT ![id].deleted = 1]

\* Mutant: lastTimeCorrect and timesCorrect are written for every answer.
updatePhraseAlwaysCorrect(table, id, wasCorrect, lastTimeCorrect, dueDate, easeFactor) ==
    [table EXCEPT ![id].timesCorrect = @ + 1,
                  ![id].lastTimeSeen = formatTimeToStr(lastTimeCorrect),
                  ![id].lastTimeCorrect = formatTimeToStr(lastTimeCorrect),
                  ![id].dueDate = formatTimeToStr(dueDate),
                  ![id].easeFactor = easeFactor]

\* ChineseDB.updatePhrase: the two UPDATE statements.  Neither sets timesSeen.
updatePhrase(table, id, wasCorrect, lastTimeCorrect, dueDate, easeFactor) ==
    IF wasCorrect
    THEN [table EXCEPT ![id].timesCorrect = @ + 1,
                       ![id].lastTimeSeen = formatTimeToStr(lastTimeCorrect),
                       ![id].lastTimeCorrect = formatTimeToStr(lastTimeCorrect),
                       ![id].dueDate = formatTimeToStr(dueDate),
                       ![id].easeFactor = easeFactor]
    ELSE [table EXCEPT ![id].timesCorrect = @ + 0,
                       ![id].lastTimeSeen = formatTimeToStr(lastTimeCorrect),
                       ![id].dueDate = formatTimeToStr(dueDate),
                       ![id].easeFactor = easeFactor]

\* Mutant: the insert replaces the last sample instead of adding one.
insertResponseTimeReplace(samples, id, timeStamp, responseTime) ==
    LET row == [chinesePhraseID |-> id, timeStamp |-> formatTimeToStr(timeStamp),
                responseTime |-> responseTime]
    IN  IF Len(samples) = 0 THEN <<row>>
        ELSE [samples EXCEPT ![Len(samples)] = row]

\* ChineseDB.insertResponseTime
insertResponseTime(samples, id, timeStamp, responseTime) ==
    Append(samples, [chinesePhraseID |-> id, timeStamp |-> formatTimeToStr(timeStamp),
                     responseTime |-> responseTime])

\* ChineseDB.getResponseTimeCount
getResponseTimeCount(samples) == Len(samples)

\* SUM(responseTime) and SUM(responseTime^2) of the table
\* (summed by halves: rows lo .. hi of the table)
RECURSIVE sumTimesIn(_, _, _)
sumTimesIn(samples, lo, hi) ==
    IF lo > hi THEN 0
    ELSE IF lo = hi THEN samples[lo].responseTime
    ELSE sumTimesIn(samples, lo, (lo + hi) \div 2)
           + sumTimesIn(samples, ((lo + hi) \div 2) + 1, hi)
sumTimes(samples) == sumTimesIn(samples, 1, Len(samples))
RECURSIVE sumSquaresIn(_, _, _)
sumSquaresIn(samples, lo, hi) ==
    IF lo > hi THEN 0
    ELSE IF lo = hi THEN samples[lo].responseTime * samples[lo].responseTime
    ELSE sumSquaresIn(samples, lo, (lo + hi) \div 2)
           + sumSquaresIn(samples, ((lo + hi) \div 2) + 1, hi)
sumSquares(samples) == sumSquaresIn(samples, 1, Len(samples))

\* delta <= avg - std, with avg = getResponseTimeAverage() and std the root of
\* getResponseTimeVariance(), cleared of the division and the root:
\* avg = S/n, variance = (n*Q - S*S)/(n*n).
atMostAvgMinusStd(delta, samples) ==
    LET n == Len(samples)
        S == sumTimes(samples)
        Q == sumSquares(samples)
    IN  S - n * delta >= 0 /\ n * Q - S * S <= (S - n * delta) * (S - n * delta)

\* delta <= avg + std
atMostAvgPlusStd(delta, samples) ==
    LET n == Len(samples)
        S == sumTimes(samples)
        Q == sumSquares(samples)
    IN  n * delta - S <= 0 \/ (n * delta - S) * (n * delta - S) <= n * Q - S * S

\* ------------------------------------------------------------------ Model
\* `num >= 100` in _assessQuality
MinSamples == 100

\* temp.seconds (+ microseconds) of temp = now - start: the days of the
\* difference are not part of it.
elapsedSeconds(now, start) == deltaSeconds(now, start)

\* Mutant: the statistics are trusted only above 100 samples.
assessQualityAbove(answerState, delta, samples, numDifferentAnswers) ==
    LET num == getResponseTimeCount(samples)
    IN  CASE answerState = "CORRECT" ->
               IF num > MinSamples
               THEN IF atMostAvgMinusStd(delta, samples) THEN 5
                    ELSE IF atMostAvgPlusStd(delta, samples) THEN 4
                    ELSE 3
               ELSE 4
          [] answerState = "HOMONYM" ->
               IF num > MinSamples
               THEN IF atMostAvgMinusStd(delta, samples) THEN 4 ELSE 3
               ELSE 3
          [] answerState = "WRONG" ->
               IF numDifferentAnswers > 0
               THEN IF num > MinSamples
                    THEN IF atMostAvgMinusStd(delta, samples) THEN 2 ELSE 1
                    ELSE 1
               ELSE 0
          [] OTHER -> 2

\* Mutant: the statistics are trusted from the first sample on.
assessQualityNoMinimum(answerState, delta, samples, numDifferentAnswers) ==
    LET num == getResponseTimeCount(samples)
    IN  CASE answerState = "CORRECT" ->
               IF num >= 1
               THEN IF atMostAvgMinusStd(delta, samples) THEN 5
                    ELSE IF atMostAvgPlusStd(delta, samples) THEN 4
                    ELSE 3
               ELSE 4
          [] answerState = "HOMONYM" ->
               IF num >= 1
               THEN IF atMostAvgMinusStd(delta, samples) THEN 4 ELSE 3
               ELSE 3
          [] answerState = "WRONG" ->
               IF numDifferentAnswers > 0
               THEN IF num >= 1
                    THEN IF atMostAvgMinusStd(delta, samples) THEN 2 ELSE 1
                    ELSE 1
               ELSE 0
          [] OTHER -> 2

\* Model._assessQuality; delta is the elapsed time, samples the responseTimes
\* table, numDifferentAnswers the length of getPhrasesWithSamePinyin's result.
assessQuality(answerState, delta, samples, numDifferentAnswers) ==
    LET num == getResponseTimeCount(samples)
    IN  CASE answerState = "CORRECT" ->
               IF num >= MinSamples
               THEN IF atMostAvgMinusStd(delta, samples) THEN 5
                    ELSE IF atMostAvgPlusStd(delta, samples) THEN 4
                    ELSE 3
               ELSE 4
          [] answerState = "HOMONYM" ->
               IF num >= MinSamples
               THEN IF atMostAvgMinusStd(delta, samples) THEN 4 ELSE 3
               ELSE 3
          [] answerState = "WRONG" ->
               IF numDifferentAnswers > 0
               THEN IF num >= MinSamples
                    THEN IF atMostAvgMinusStd(delta, samples) THEN 2 ELSE 1
                    ELSE 1
               ELSE 0
          [] OTHER -> 2

\* The two storage calls of _updateDatabase, with their arguments evaluated:
\* due is what updateDueDate returned (or raised), ease what updateEaseFactor
\* returned.  An exception while the arguments are evaluated leaves both
\* tables as they were.
storeAnswer(cp, now, table, samples, wasCorrect, delta, quality, due, ease) ==
    IF due.exc # "none"
    THEN [exc |-> due.exc, quality |-> quality, table |-> table, samples |-> samples]
    ELSE [exc |-> "none", quality |-> quality,
          table |-> updatePhrase(table, cp.id, wasCorrect, now, due.t, ease),
          samples |-> insertResponseTime(samples, cp.id, now, delta)]

\* _updateDatabase after `quality = self._assessQuality(answerState)`: the due
\* date and the ease factor are computed from the selected phrase's snapshot.
updateDatabaseWith(cp, now, table, samples, wasCorrect, delta, quality, fp) ==
    storeAnswer(cp, now, table, samples, wasCorrect, delta, quality,
                updateDueDate(cp.lastTimeSeen, cp.dueDate, cp.easeFactor, quality, now, fp),
                updateEaseFactor(cp.easeFactor, quality))

\* Mutant: the new sample is inserted before the quality is assessed.
updateDatabaseSampleFirst(cp, start, now, table, samples, answer, wasCorrect, fp) ==
    updateDatabaseWith(cp, now, table, samples, wasCorrect, elapsedSeconds(now, start),
        assessQuality(answer, elapsedSeconds(now, start),
                      insertResponseTime(samples, cp.id, now, elapsedSeconds(now, start)),
                      Len(getPhrasesWithSamePinyin(table, cp.pinyin, cp.id))),
        fp)

\* Model._updateDatabase
updateDatabase(cp, start, now, table, samples, answer, wasCorrect, fp) ==
    updateDatabaseWith(cp, now, table, samples, wasCorrect, elapsedSeconds(now, start),
        assessQuality(answer, elapsedSeconds(now, start), samples,
                      Len(getPhrasesWithSamePinyin(table, cp.pinyin, cp.id))),
        fp)

\* One comparison of the homonym loop: e is the sibling's normalized
\* pronunciation.
RECURSIVE homonymLoop(_, _, _, _, _)
homonymStep(i, e, sibs, k, table, ignoreTones) ==
    IF e.exc # "none" THEN [exc |-> e.exc, answer |-> "WRONG"]
    ELSE IF i = e.s THEN [exc |-> "none", answer |-> "HOMONYM"]
    ELSE homonymLoop(i, sibs, k + 1, table, ignoreTones)

\* The homonym loop of checkAnswer from sibling k: "HOMONYM" at the first
\* sibling whose normalized pronunciation equals the input, "WRONG" when the
\* list is exhausted.
homonymLoop(i, sibs, k, table, ignoreTones) ==
    IF k > Len(sibs) THEN [exc |-> "none", answer |-> "WRONG"]
    ELSE homonymStep(i, normalizeExpected(table[sibs[k]].pinyin, ignoreTones),
                     sibs, k, table, ignoreTones)

\* Mutant: the siblings are compared before the current phrase.
compareAnswerSiblingsFirst(i, e, sibs, table, ignoreTones) ==
    IF homonymLoop(i, sibs, 1, table, ignoreTones).answer = "HOMONYM"
    THEN [exc |-> "none", answer |-> "HOMONYM"]
    ELSE IF i = e.s THEN [exc |-> "none", answer |-> "CORRECT"]
    ELSE [exc |-> "none", answer |-> "WRONG"]

\* The comparisons of checkAnswer: i is the normalized input, e the current
\* phrase's normalized pronunciation.
compareAnswer(i, e, sibs, table, ignoreTones) ==
    IF e.exc # "none" THEN [exc |-> e.exc, answer |-> "WRONG"]
    ELSE IF i = e.s THEN [exc |-> "none", answer |-> "CORRECT"]
    ELSE homonymLoop(i, sibs, 1, table, ignoreTones)

\* The ANSWER_STATE Model.checkAnswer decides on before it calls
\* _updateDatabase.
answerState(cp, sibs, table, userInput, ignoreTones) ==
    compareAnswer(normalizeInput(userInput, ignoreTones),
                  normalizeExpected(cp.pinyin, ignoreTones), sibs, table, ignoreTones)

\* checkAnswer's return statement: u is what _updateDatabase returned or raised.
returnAnswer(answer, u, table, samples) ==
    IF u.exc # "none"
    THEN [exc |-> u.exc, answer |-> "none", quality |-> NoQuality,
          table |-> table, samples |-> samples]
    ELSE [exc |-> "none", answer |-> answer, quality |-> u.quality,
          table |-> u.table, samples |-> u.samples]

\* checkAnswer once the ANSWER_STATE a is decided.
gradeAnswer(a, cp, start, now, table, samples, fp) ==
    IF a.exc # "none"
    THEN [exc |-> a.exc, answer |-> "none", quality |-> NoQuality,
          table |-> table, samples |-> samples]
    ELSE returnAnswer(a.answer,
                      updateDatabase(cp, start, now, table, samples, a.answer,
                                     a.answer = "CORRECT", fp),
                      table, samples)

\* Model.checkAnswer: (ANSWER_STATE, QUALITY) and the tables after it, or the
\* exception it raises.  With no phrase selected, self.currentPhrase.pinyin
\* raises AttributeError.
checkAnswerModel(cp, sibs, start, now, table, samples, userInput, ignoreTones, fp) ==
    IF cp = None
    THEN [exc |-> "AttributeError", answer |-> "none", quality |-> NoQuality,
          table |-> table, samples |-> samples]
    ELSE gradeAnswer(answerState(cp, sibs, table, userInput, ignoreTones),
                     cp, start, now, table, samples, fp)

\* The level loop without `r = r - v`: r is compared unreduced with each value.
RECURSIVE drawLevelNoSubtract(_, _, _, _)
drawLevelNoSubtract(active, sliderValue, k, r) ==
    IF k > Len(active) THEN "unbound"
    ELSE IF r <= sliderValue[active[k]] THEN active[k]
    ELSE drawLevelNoSubtract(active, sliderValue, k + 1, r)

\* The level loop of Controller.loadNextQuestion from position k with the
\* draw r: the first active level whose slider value is at least what is left
\* of r; "unbound" when the loop ends with `level` never assigned.
RECURSIVE drawLevel(_, _, _, _)
drawLevel(active, sliderValue, k, r) ==
    IF k > Len(active) THEN "unbound"
    ELSE IF r <= sliderValue[active[k]] THEN active[k]
    ELSE drawLevel(active, sliderValue, k + 1, r - sliderValue[active[k]])

\* sum([self.view.getSliderValue(l) for l in self.activeLearningLevels])
RECURSIVE sumSliders(_, _)
sumSliders(active, sliderValue) ==
    IF Len(active) = 0 THEN 0
    ELSE sliderValue[active[1]] + sumSliders(Tail(active), sliderValue)

\* ------------------------------------------------------------------ state
VARIABLES
    now,                        \* the wall clock, datetime.datetime.now()
    chinesePhrases,             \* table chinesePhrases: id -> row
    responseTimes,              \* table responseTimes, in insertion order
    currentPhrase,              \* Model.currentPhrase (a snapshot row or None)
    phrasesWithSameLogographs,  \* Model.phrasesWithSameLogographs (row ids)
    start,                      \* Model.start
    hasChecked,                 \* Controller.hasChecked
    viewState,                  \* View.state
    activeLearningLevels,       \* Controller.activeLearningLevels
    checkboxes,                 \* View.checkboxes[level].isChecked()
    sliders,                    \* View.sliders[level].value()
    ret,                        \* the last call of Model.checkAnswer and its result
    fn                          \* the last scheduling function applied alone

vars == <<now, chinesePhrases, responseTimes, currentPhrase,
          phrasesWithSameLogographs, start, hasChecked, viewState,
          activeLearningLevels, checkboxes, sliders, ret, fn>>

storeVars == <<chinesePhrases, responseTimes>>
questionVars == <<currentPhrase, phrasesWithSameLogographs, start>>
setupVars == <<activeLearningLevels, checkboxes, sliders>>

\* The texts a user types: nothing, the reading of rows 1 and 3, the same in
\* capitals with a space, the reading of row 2, a reading of no row.
Inputs ==
    {<<>>, <<"t", "a", "1">>, <<"T", "A", " ", "1">>, <<"t", "a", "4">>,
     <<"t", "a", "2">>}

NoCall == [n |-> 0, phrase |-> 0, exc |-> "none", answer |-> "none",
           quality |-> NoQuality]
NoFn == [op |-> "none", lastTimeSeen |-> Null, oldDueDate |-> Null,
         oldEaseFactor |-> 0, quality |-> NoQuality, now |-> 0, fp |-> 0,
         result |-> [exc |-> "none", t |-> 0]]

\* Model.__init__, Controller.__init__ with _read_ini falling back to
\* _initializeDefaultLearningLevels, _initializeSetupView and loadSetupView,
\* over a database as the import leaves it.
Init ==
    /\ now = 0
    /\ chinesePhrases = [id \in PhraseIds |-> importedRow(id)]
    /\ responseTimes = <<>>
    /\ currentPhrase = None
    /\ phrasesWithSameLogographs = <<>>
    /\ start = 0
    /\ hasChecked = FALSE
    /\ viewState = "SETUP"
    /\ activeLearningLevels = learningLevels
    /\ checkboxes = [l \in Levels |-> TRUE]
    /\ sliders = [l \in Levels |-> maximums[l]]
    /\ ret = NoCall
    /\ fn = NoFn

\* Time passes while a question is open (the user thinks); the handlers
\* themselves take no time.
Tick ==
    /\ viewState = "TESTING"
    /\ ~hasChecked
    /\ now < MaxTime
    /\ now' = now + 1
    /\ UNCHANGED <<storeVars, questionVars, hasChecked, viewState, setupVars, ret, fn>>

\* Model.getRandomPhraseInLevel on the table given, as called by
\* loadNextQuestion: the drawn phrase becomes the current one.
selectPhrase(table, id) ==
    /\ currentPhrase' = ChineseDataWithStats(table[id])
    /\ phrasesWithSameLogographs' =
           getPhrasesWithSameLogographs(table, table[id].simplified, id)
    /\ start' = now

\* Controller.loadNextQuestion with the view in state vs and the phrase table
\* as the handler has left it.  r is random.randint's draw; useDue is
\* `random.random() >= self.newUnseenCardChance`.
loadNextQuestion(vs, table) ==
    \E r \in 1 .. sumSliders(activeLearningLevels, sliders), useDue \in BOOLEAN :
      \E level \in {drawLevel(activeLearningLevels, sliders, 1, r)} :
        \E phrases \in {getPhrases(table, level, sliders[level] - 1)} :
            \/ \* Database.getPhrasesDueToday raises NotImplementedError, which
               \* leaves the handler
               /\ useDue
               /\ viewState' = vs
               /\ UNCHANGED <<questionVars, hasChecked>>
            \/ \* IndexError: the message box, then returnToSetupView
               /\ ~useDue
               /\ Len(phrases) = 0
               /\ viewState' = "SETUP"
               /\ UNCHANGED <<questionVars, hasChecked>>
            \/ \* random.choice(phrases)
               /\ ~useDue
               /\ \E k \in 1 .. Len(phrases) : selectPhrase(table, phrases[k])
               /\ viewState' = vs
               /\ hasChecked' = FALSE

\* Controller.beginTesting (button Begin of the setup view)
Begin ==
    /\ viewState = "SETUP"
    /\ IF Len(activeLearningLevels) = 0
       THEN UNCHANGED <<questionVars, hasChecked, viewState>>
       ELSE loadNextQuestion("TESTING", chinesePhrases)
    /\ UNCHANGED <<now, storeVars, setupVars, ret, fn>>

\* What a call of Model.checkAnswer leaves behind: c is its result.
recordAnswer(c) ==
    /\ chinesePhrases' = c.table
    /\ responseTimes' = c.samples
    /\ ret' = [n |-> ret.n + 1, phrase |-> currentPhrase.id, exc |-> c.exc,
               answer |-> c.answer, quality |-> c.quality]

\* The part of Controller.checkAnswer after its two early returns:
\* hasChecked is set, then Model.checkAnswer(input, False) runs.
submitAnswer(input) ==
    /\ ret.n < MaxAnswers
    /\ \E fp \in {0, 1} :
         recordAnswer(checkAnswerModel(currentPhrase, phrasesWithSameLogographs, start,
                                       now, chinesePhrases, responseTimes, input, FALSE, fp))
    /\ hasChecked' = TRUE
    /\ UNCHANGED <<now, questionVars, viewState, setupVars, fn>>

\* Mutant: Check without the `if self.hasChecked: return` guard.
CheckAlways(input) ==
    /\ viewState = "TESTING"
    /\ IF Len(input) = 0
       THEN UNCHANGED vars
       ELSE submitAnswer(input)

\* Controller.checkAnswer (button Check) with `input` in the line edit
Check(input) ==
    /\ viewState = "TESTING"
    /\ IF Len(input) = 0 \/ hasChecked
       THEN UNCHANGED vars
       ELSE submitAnswer(input)

\* Mutant: Next loads the next question whether or not the answer was checked.
NextQuestionAlwaysLoads ==
    /\ viewState = "TESTING"
    /\ loadNextQuestion(viewState, chinesePhrases)
    /\ UNCHANGED <<now, storeVars, setupVars, ret, fn>>

\* Controller.nextQuestion (button Next)
NextQuestion ==
    /\ viewState = "TESTING"
    /\ IF hasChecked
       THEN loadNextQuestion(viewState, chinesePhrases)
       ELSE /\ hasChecked' = TRUE
            /\ UNCHANGED <<questionVars, viewState>>
    /\ UNCHANGED <<now, storeVars, setupVars, ret, fn>>

\* Controller.returnPressed (Enter in the line edit) with `input` in it
ReturnPressed(input) ==
    /\ viewState = "TESTING"
    /\ IF hasChecked
       THEN NextQuestion
       ELSE IF Len(input) # 0
       THEN Check(input)
       ELSE /\ hasChecked' = TRUE
            /\ UNCHANGED <<now, storeVars, questionVars, viewState, setupVars, ret, fn>>

\* Controller.deleteEntry (button Delete) answered Yes: Model.deleteEntry,
\* then loadNextQuestion.  With no phrase selected self.currentPhrase.id
\* raises AttributeError.
DeleteEntry ==
    /\ viewState = "TESTING"
    /\ Cardinality({id \in PhraseIds : chinesePhrases[id].deleted = 1}) < MaxDeletes
    /\ IF currentPhrase = None
       THEN UNCHANGED <<chinesePhrases, questionVars, hasChecked, viewState>>
       ELSE /\ chinesePhrases' = deletePhrase(chinesePhrases, currentPhrase.id)
            /\ loadNextQuestion(viewState, chinesePhrases')
    /\ UNCHANGED <<now, responseTimes, setupVars, ret, fn>>

\* Controller.returnToSetupView (button Exit of the testing view)
ReturnToSetupView ==
    /\ viewState = "TESTING"
    /\ viewState' = "SETUP"
    /\ UNCHANGED <<now, storeVars, questionVars, hasChecked, setupVars, ret, fn>>

\* The position of a level in learningLevels.
levelIndex(level) == CHOOSE k \in 1 .. Len(learningLevels) : learningLevels[k] = level

\* Controller.manageLearningLevels(level), run by a click on the level's
\* check box (the click has toggled the box).
ManageLearningLevels(level) ==
    /\ viewState = "SETUP"
    /\ LET k == levelIndex(level)
       IN  IF ~checkboxes[level]
           THEN \* newly checked
                /\ activeLearningLevels' = SubSeq(learningLevels, 1, k)
                /\ checkboxes' = [l \in Levels |->
                                    IF levelIndex(l) <= k THEN TRUE ELSE checkboxes[l]]
           ELSE \* newly unchecked
                /\ activeLearningLevels' = SubSeq(learningLevels, 1, k - 1)
                /\ checkboxes' = [l \in Levels |->
                                    IF levelIndex(l) >= k THEN FALSE ELSE checkboxes[l]]
    /\ UNCHANGED <<now, storeVars, questionVars, hasChecked, viewState, sliders, ret, fn>>

\* The user moves a level's slider (minimum 1, maximum set by
\* _initializeSetupView); updateLabel only redraws.
MoveSlider(level, value) ==
    /\ viewState = "SETUP"
    /\ sliders' = [sliders EXCEPT ![level] = value]
    /\ UNCHANGED <<now, storeVars, questionVars, hasChecked, viewState,
                   activeLearningLevels, checkboxes, ret, fn>>

Next ==
    \/ Tick
    \/ Begin
    \/ \E input \in Inputs : Check(input)
    \/ NextQuestion
    \/ \E input \in Inputs : ReturnPressed(input)
    \/ DeleteEntry
    \/ ReturnToSetupView
    \/ \E level \in Levels : ManageLearningLevels(level)
    \/ \E level \in Levels : \E value \in 1 .. maximums[level] : MoveSlider(level, value)

Spec == Init /\ [][Next]_vars

\* ------------------------------------------- the scheduling functions alone
\* The ease factors and time texts the functions are applied to.
FnEases == 100 .. MaxFnEase
FnDueEases == {MinEase, 150, 190, 236, DefaultEase}
FnTimeTexts == {Null, Zero} \cup {formatTimeToStr(t) : t \in 0 .. MaxFnTime}
FnQualities == QUALITY \cup {NoQuality}
Pending == [exc |-> "pending", t |-> 0]

\* The calls of the scheduling functions, each before it has run.
FnCalls ==
    {[NoFn EXCEPT !.op = "updateEaseFactor", !.oldEaseFactor = e, !.quality = q,
                  !.result = Pending] : e \in FnEases, q \in FnQualities}
    \cup
    [op : {"updateDueDate"}, lastTimeSeen : FnTimeTexts, oldDueDate : FnTimeTexts,
     oldEaseFactor : FnDueEases, quality : FnQualities, now : {0, 3}, fp : {0, 1},
     result : {Pending}]

\* The session as constructed, with one call of a scheduling function drawn.
InitFn ==
    /\ now = 0
    /\ chinesePhrases = [id \in PhraseIds |-> importedRow(id)]
    /\ responseTimes = <<>>
    /\ currentPhrase = None
    /\ phrasesWithSameLogographs = <<>>
    /\ start = 0
    /\ hasChecked = FALSE
    /\ viewState = "SETUP"
    /\ activeLearningLevels = learningLevels
    /\ checkboxes = [l \in Levels |-> TRUE]
    /\ sliders = [l \in Levels |-> maximums[l]]
    /\ ret = NoCall
    /\ fn \in FnCalls

\* Model.updateEaseFactor runs on the drawn ease factor and quality.
ApplyUpdateEaseFactor ==
    /\ fn.op = "updateEaseFactor"
    /\ fn.result = Pending
    /\ fn' = [fn EXCEPT !.result =
                 [exc |-> "none", t |-> updateEaseFactor(fn.oldEaseFactor, fn.quality)]]
    /\ UNCHANGED <<now, storeVars, questionVars, hasChecked, viewState, setupVars, ret>>

\* Model.updateDueDate runs on the drawn history, ease factor and quality at
\* the drawn clock value.
ApplyUpdateDueDate ==
    /\ fn.op = "updateDueDate"
    /\ fn.result = Pending
    /\ fn' = [fn EXCEPT !.result =
                 updateDueDate(fn.lastTimeSeen, fn.oldDueDate, fn.oldEaseFactor,
                               fn.quality, fn.now, fn.fp)]
    /\ UNCHANGED <<now, storeVars, questionVars, hasChecked, viewState, setupVars, ret>>

NextFn == ApplyUpdateEaseFactor \/ ApplyUpdateDueDate

SpecFn == InitFn /\ [][NextFn]_vars

\* ==================================================================
\* Properties of the scheduling functions, checked under SpecFn
\* ==================================================================
\* The drawn call of `op` has run.
Applied(op) == fn.op = op /\ fn.result # Pending

\* The drawn history holds two timestamps: the phrase was reviewed before.
Reviewed == fn.lastTimeSeen.kind = "ts" /\ fn.oldDueDate.kind = "ts"

\* C1: for every quality in 0..5 and every starting ease factor of at least
\* 1.3, updateEaseFactor returns an ease factor of at least 1.3.
C1_EaseFactorFloor ==
    (Applied("updateEaseFactor") /\ fn.quality \in QUALITY /\ fn.oldEaseFactor >= MinEase)
        => fn.result.t >= MinEase

\* C1 witness: the lowest ease factor graded ZERO stays at 1.3.
C1_Witness ==
    /\ Applied("updateEaseFactor")
    /\ fn.quality = 0
    /\ fn.oldEaseFactor = MinEase
    /\ fn.result.t = MinEase

\* C2: updateEaseFactor returns max(1.3, old + delta) with delta +0.10 for
\* quality 5, 0.00 for 4, -0.14 for 3, -0.32 for 2, -0.54 for 1 and -0.80
\* for 0; 2.5 graded 3 gives 2.36.
C2_EaseFactorTable ==
    (Applied("updateEaseFactor") /\ fn.quality \in QUALITY)
        => LET d == <<0 - 80, 0 - 54, 0 - 32, 0 - 14, 0, 10>>[fn.quality + 1]
               e == fn.oldEaseFactor + d
           IN  /\ fn.result.t = (IF e < 130 THEN 130 ELSE e)
               /\ (fn.oldEaseFactor = 250 /\ fn.quality = 3) => fn.result.t = 236

\* C2 witness: ease factor 2.5 graded THREE has become 2.36.
C2_Witness ==
    /\ Applied("updateEaseFactor")
    /\ fn.oldEaseFactor = 250
    /\ fn.quality = 3
    /\ fn.result.t = 236

\* C3: for a failing quality (0, 1 or 2) updateDueDate returns exactly
\* now + 1 day, whatever lastTimeSeen, the old due date and the ease factor.
C3_FailingResets ==
    (Applied("updateDueDate") /\ fn.quality \in {0, 1, 2})
        => fn.result = [exc |-> "none", t |-> fn.now + TicksPerDay]

\* C3 witness: a failing grade on a phrase whose history spans two days and
\* whose ease factor is 2.5 is due one day from now.
C3_Witness ==
    /\ Applied("updateDueDate")
    /\ fn.quality = 1
    /\ fn.lastTimeSeen = formatTimeToStr(0)
    /\ fn.oldDueDate = formatTimeToStr(2 * TicksPerDay)
    /\ fn.oldEaseFactor = DefaultEase
    /\ fn.result.t = fn.now + TicksPerDay

\* C4: for a non-failing quality (3, 4 or 5) on a phrase whose lastTimeSeen
\* or due date is the never-seen sentinel "0", updateDueDate returns
\* now + 1 day.
C4_SentinelOneDay ==
    (/\ Applied("updateDueDate")
     /\ fn.quality \in {3, 4, 5}
     /\ (fn.lastTimeSeen = Zero \/ fn.oldDueDate = Zero))
        => fn.result = [exc |-> "none", t |-> fn.now + TicksPerDay]

\* C4 witness: due date "0" and quality 4 give now + 1 day.
C4_Witness ==
    /\ Applied("updateDueDate")
    /\ fn.quality = 4
    /\ fn.oldDueDate = Zero
    /\ fn.lastTimeSeen = formatTimeToStr(0)
    /\ fn.result.t = fn.now + TicksPerDay

\* C5: for a non-failing quality on a reviewed phrase whose interval (old
\* due date minus lastTimeSeen, in whole days) is 1, updateDueDate returns
\* now + 6 days for every ease factor.
C5_FirstGraduationSixDays ==
    (/\ Applied("updateDueDate")
     /\ fn.quality \in {3, 4, 5}
     /\ Reviewed
     /\ intervalDays(fn.oldDueDate.t, fn.lastTimeSeen.t) = 1)
        => fn.result = [exc |-> "none", t |-> fn.now + 6 * TicksPerDay]

\* C5 witness: a one-day interval at the lowest ease factor jumps six days.
C5_Witness ==
    /\ Applied("updateDueDate")
    /\ fn.quality = 3
    /\ fn.lastTimeSeen = formatTimeToStr(1)
    /\ fn.oldDueDate = formatTimeToStr(1 + TicksPerDay)
    /\ fn.oldEaseFactor = MinEase
    /\ fn.result.t = fn.now + 6 * TicksPerDay

\* The case of C6: a non-failing quality on a reviewed phrase whose interval
\* is not 1.
C6_Case ==
    /\ Applied("updateDueDate")
    /\ fn.quality \in {3, 4, 5}
    /\ Reviewed
    /\ intervalDays(fn.oldDueDate.t, fn.lastTimeSeen.t) # 1

\* interval * newEaseFactor in hundredths of a day, newEaseFactor being the
\* ease factor after this answer's adjustment.
C6_Product ==
    intervalDays(fn.oldDueDate.t, fn.lastTimeSeen.t)
        * updateEaseFactor(fn.oldEaseFactor, fn.quality)

\* C6 as stated: the new due date is now + interval * newEaseFactor days.
C6_ExactProduct ==
    C6_Case => /\ fn.result.exc = "none"
               /\ (fn.result.t - fn.now) * 100 = C6_Product * TicksPerDay

\* C6 amended: the new due date is now + int(interval * newEaseFactor) days,
\* the product (of the interval and the ease factor after this answer's
\* adjustment, not the old one) truncated toward zero to whole days; where
\* the exact product is a non-zero whole number the floating-point product
\* may fall short of it, and truncation then gives one day less in magnitude.
C6_TruncatedProduct ==
    C6_Case =>
        LET p == C6_Product
            a == IF p >= 0 THEN p ELSE 0 - p
            days == (fn.result.t - fn.now) \div TicksPerDay
            mag == IF days >= 0 THEN days ELSE 0 - days
        IN  /\ fn.result.exc = "none"
            /\ (fn.result.t - fn.now) % TicksPerDay = 0
            /\ (p > 0 => days >= 0) /\ (p < 0 => days <= 0)
            /\ \/ mag = a \div 100
               \/ a % 100 = 0 /\ a > 0 /\ mag = (a \div 100) - 1

\* C6 witness: interval 2 with ease factor 2.5 graded THREE (new ease factor
\* 2.36) is due 4 days from now: int(4.72), not int(2 * 2.5) = 5.
C6_Witness ==
    /\ Applied("updateDueDate")
    /\ fn.quality = 3
    /\ fn.lastTimeSeen = formatTimeToStr(0)
    /\ fn.oldDueDate = formatTimeToStr(2 * TicksPerDay)
    /\ fn.oldEaseFactor = DefaultEase
    /\ fn.result.t = fn.now + 4 * TicksPerDay

\* ==================================================================
\* Properties of answer submission, checked under Spec
\* ==================================================================
\* This step is Model.checkAnswer called on a selected phrase.
Submitted == ret'.n = ret.n + 1 /\ currentPhrase # None

\* This step is Model.checkAnswer returning its (outcome, quality) pair.
Graded == Submitted /\ ret'.exc = "none"

\* C7: every submitted answer (CORRECT, HOMONYM or WRONG) increases the
\* answered phrase's timesSeen by exactly 1.
C7_TimesSeenIncrements ==
    [][Graded => chinesePhrases'[currentPhrase.id].timesSeen
                     = chinesePhrases[currentPhrase.id].timesSeen + 1]_vars

\* C8: on every submitted answer lastTimeSeen is set to now; timesCorrect
\* increases by 1 and lastTimeCorrect is set to now if and only if the
\* outcome is CORRECT; a HOMONYM or WRONG answer leaves both unchanged.
C8_SeenAndCorrectStamps ==
    [][Submitted =>
         LET old == chinesePhrases[currentPhrase.id]
             new == chinesePhrases'[currentPhrase.id]
         IN  /\ new.lastTimeSeen = formatTimeToStr(now)
             /\ ret'.answer = "CORRECT"
                  => /\ new.timesCorrect = old.timesCorrect + 1
                     /\ new.lastTimeCorrect = formatTimeToStr(now)
             /\ ret'.answer # "CORRECT"
                  => /\ new.timesCorrect = old.timesCorrect
                     /\ new.lastTimeCorrect = old.lastTimeCorrect]_vars

\* C9: every submitted answer appends exactly one response-time sample
\* (phrase id, timestamp, elapsed seconds) for the answered phrase, and no
\* step changes or removes an existing sample.
C9_OneSamplePerAnswer ==
    [][/\ Len(responseTimes') >= Len(responseTimes)
       /\ SubSeq(responseTimes', 1, Len(responseTimes)) = responseTimes
       /\ Submitted =>
            /\ Len(responseTimes') = Len(responseTimes) + 1
            /\ responseTimes'[Len(responseTimes')] =
                   [chinesePhraseID |-> currentPhrase.id,
                    timeStamp |-> formatTimeToStr(now),
                    responseTime |-> elapsedSeconds(now, start)]
       /\ ~Submitted => responseTimes' = responseTimes]_vars

\* C10: if the input, lower-cased and with its spaces removed, equals the
\* current phrase's normalized pronunciation, checkAnswer returns CORRECT,
\* also when a sibling has the same normalized pronunciation.
C10_MatchReturnsCorrect ==
    [][\A input \in Inputs :
         (/\ currentPhrase # None
          /\ submitAnswer(input)
          /\ normalizeExpected(currentPhrase.pinyin, FALSE).exc = "none"
          /\ normalizeInput(input, FALSE) = normalizeExpected(currentPhrase.pinyin, FALSE).s)
            => ret'.answer = "CORRECT"]_vars

\* The normalized input equals the normalized pronunciation of a sibling of
\* the current phrase.
MatchesSibling(input) ==
    \E k \in 1 .. Len(phrasesWithSameLogographs) :
        normalizeExpected(chinesePhrases[phrasesWithSameLogographs[k]].pinyin, FALSE).s
            = normalizeInput(input, FALSE)

\* C11: an input that does not match the current phrase but matches a sibling
\* makes checkAnswer return HOMONYM with the database updated once; an input
\* that matches neither makes it return WRONG.
C11_HomonymOrWrong ==
    [][\A input \in Inputs :
         (/\ currentPhrase # None
          /\ submitAnswer(input)
          /\ normalizeInput(input, FALSE) # normalizeExpected(currentPhrase.pinyin, FALSE).s)
            => IF MatchesSibling(input)
               THEN /\ ret'.answer = "HOMONYM"
                    /\ Len(responseTimes') = Len(responseTimes) + 1
                    /\ \A id \in PhraseIds \ {currentPhrase.id} :
                           chinesePhrases'[id] = chinesePhrases[id]
               ELSE ret'.answer = "WRONG"]_vars

\* ==================================================================
\* The text functions alone: one call is drawn, then it runs
\* ==================================================================
\* All sequences over `alphabet` of length at most n.
RECURSIVE StringsUpTo(_, _)
StringsUpTo(alphabet, n) ==
    IF n = 0 THEN {<<>>}
    ELSE StringsUpTo(alphabet, n - 1)
         \cup {Append(s, c) : s \in {x \in StringsUpTo(alphabet, n - 1) : Len(x) = n - 1},
                              c \in alphabet}

\* What the user may type: letters in both cases, a space, a tab, tone digits.
TypedChars == {"t", "a", "A", " ", "\t", "1", "2"}
\* What a span of the pinyin column may hold: plain and tone-marked letters.
SpanChars == {"t", "a", "n", "a^1", "A^4", "v^3"}
\* The elements a pinyin markup is made of.
MarkupNodes ==
    {Node("span", <<"t", "a^1">>), Node("span", <<"m", "a">>),
     Node("span", <<"n", "v^3">>), NodeNoString("span"),
     Node("text", <<"t", "a^4">>), Node("b", <<"a^1">>)}

TextPending == [exc |-> "pending", s |-> <<>>, answer |-> "none"]
NoText == [op |-> "none", s |-> <<>>, ignoreTones |-> FALSE, phrase |-> 1,
           markup |-> <<>>, result |-> TextPending]

\* The calls of the text functions, each before it has run: the comparisons
\* of checkAnswer on a typed text against imported phrase 1 or 2,
\* convertDiacriticToNumber on a span text, getPinyinBetweenTags on a markup.
TextCalls ==
    {[NoText EXCEPT !.op = "compare", !.s = s, !.ignoreTones = b, !.phrase = id] :
        s \in StringsUpTo(TypedChars, MaxInputLen), b \in BOOLEAN, id \in {1, 2}}
    \cup
    {[NoText EXCEPT !.op = "convertDiacriticToNumber", !.s = s] :
        s \in StringsUpTo(SpanChars, MaxInputLen)}
    \cup
    {[NoText EXCEPT !.op = "getPinyinBetweenTags", !.markup = m] :
        m \in StringsUpTo(MarkupNodes, MaxNodes)}

\* The session as constructed, with one call of a text function drawn.
InitText ==
    /\ now = 0
    /\ chinesePhrases = [id \in PhraseIds |-> importedRow(id)]
    /\ responseTimes = <<>>
    /\ currentPhrase = None
    /\ phrasesWithSameLogographs = <<>>
    /\ start = 0
    /\ hasChecked = FALSE
    /\ viewState = "SETUP"
    /\ activeLearningLevels = learningLevels
    /\ checkboxes = [l \in Levels |-> TRUE]
    /\ sliders = [l \in Levels |-> maximums[l]]
    /\ ret = NoCall
    /\ fn \in TextCalls

\* The comparisons of Model.checkAnswer with phrase id selected from `table`.
compareWith(table, id, userInput, ignoreTones) ==
    answerState(ChineseDataWithStats(table[id]),
                getPhrasesWithSameLogographs(table, table[id].simplified, id),
                table, userInput, ignoreTones)

\* The comparisons of Model.checkAnswer run on the drawn text and phrase.
ApplyCompare ==
    /\ fn.op = "compare"
    /\ fn.result = TextPending
    /\ \E a \in {compareWith(chinesePhrases, fn.phrase, fn.s, fn.ignoreTones)} :
         fn' = [fn EXCEPT !.result = [exc |-> a.exc, s |-> normalizeInput(fn.s, fn.ignoreTones),
                                      answer |-> a.answer]]
    /\ UNCHANGED <<now, storeVars, questionVars, hasChecked, viewState, setupVars, ret>>

\* Model.convertDiacriticToNumber runs on the drawn text.
ApplyConvertDiacriticToNumber ==
    /\ fn.op = "convertDiacriticToNumber"
    /\ fn.result = TextPending
    /\ \E c \in {convertDiacriticToNumber(fn.s)} :
         fn' = [fn EXCEPT !.result = [exc |-> c.exc, s |-> c.s, answer |-> "none"]]
    /\ UNCHANGED <<now, storeVars, questionVars, hasChecked, viewState, setupVars, ret>>

\* Model.getPinyinBetweenTags runs on the drawn markup.
ApplyGetPinyinBetweenTags ==
    /\ fn.op = "getPinyinBetweenTags"
    /\ fn.result = TextPending
    /\ \E g \in {getPinyinBetweenTags(fn.markup)} :
         fn' = [fn EXCEPT !.result = [exc |-> g.exc, s |-> g.s, answer |-> "none"]]
    /\ UNCHANGED <<now, storeVars, questionVars, hasChecked, viewState, setupVars, ret>>

NextText == ApplyCompare \/ ApplyConvertDiacriticToNumber \/ ApplyGetPinyinBetweenTags

SpecText == InitText /\ [][NextText]_vars

\* The drawn call of text function `op` has run.
TextApplied(op) == fn.op = op /\ fn.result.exc # "pending"

\* A text with its letters lower-cased and every whitespace character (space
\* or tab) removed.
WithoutCaseAndWhitespace(s) == keep(lower(s), Chars \ {" ", "\t"})

\* C12: two inputs that differ only in letter case or in whitespace (spaces,
\* tabs) receive the same outcome: each input is judged as its lower-cased,
\* whitespace-free form is.
C12_CaseAndWhitespaceIgnored ==
    TextApplied("compare")
        => fn.result.answer =
               compareWith(chinesePhrases, fn.phrase, WithoutCaseAndWhitespace(fn.s),
                           fn.ignoreTones).answer

\* The drawn text as checkAnswer compares it when no digit is dropped:
\* lower-cased, spaces removed.
C13_Typed == SelectSeq(lower(fn.s), LAMBDA c : c # " ")

\* The drawn phrase's tone-numbered pronunciation, lower-cased.
C13_Expected == lower(getPinyinBetweenTags(importedPinyin[fn.phrase]).s)

\* A text without its trailing digits.
RECURSIVE C13_StripTrailing(_)
C13_StripTrailing(s) ==
    IF Len(s) > 0 /\ s[Len(s)] \in Digits
    THEN C13_StripTrailing(SubSeq(s, 1, Len(s) - 1))
    ELSE s

\* A text without any of its digits.
C13_StripAll(s) == SelectSeq(s, LAMBDA c : c \notin Digits)

\* C13 as stated: with ignoreTones set only trailing tone digits are
\* stripped before the comparison.
C13_OnlyTrailingStripped ==
    (TextApplied("compare") /\ fn.ignoreTones)
        => (fn.result.answer = "CORRECT"
              <=> C13_StripTrailing(C13_Typed) = C13_StripTrailing(C13_Expected))

\* C13 amended: with ignoreTones set every digit, wherever it stands, is
\* removed from the input and from the expected pronunciation before the
\* comparison, so an input whose letters equal the expected syllables is
\* CORRECT with any or no digits; with ignoreTones unset the digits must
\* match exactly ("ta2" against "ta1" is not CORRECT).
C13_AllDigitsStripped ==
    TextApplied("compare")
        => /\ fn.result.exc = "none"
           /\ fn.ignoreTones
                => (fn.result.answer = "CORRECT"
                      <=> C13_StripAll(C13_Typed) = C13_StripAll(C13_Expected))
           /\ ~fn.ignoreTones
                => (fn.result.answer = "CORRECT" <=> C13_Typed = C13_Expected)
           /\ (~fn.ignoreTones /\ fn.s = <<"t", "a", "2">> /\ fn.phrase = 1)
                => fn.result.answer = "WRONG"

\* C13 witness: with ignoreTones set, "t1a2" is CORRECT against "ta1".
C13_Witness ==
    /\ TextApplied("compare")
    /\ fn.ignoreTones
    /\ fn.phrase = 1
    /\ fn.s = <<"t", "1", "a", "2">>
    /\ fn.result.answer = "CORRECT"

\* ==================================================================
\* _assessQuality alone: one call is drawn, then it runs
\* ==================================================================
\* A responseTimes table of n samples: the first half (n \div 2 samples)
\* took a seconds, the others b seconds.
sampleTable(n, a, b) ==
    [k \in 1 .. n |-> [chinesePhraseID |-> 1, timeStamp |-> formatTimeToStr(0),
                       responseTime |-> IF 2 * k <= n THEN a ELSE b]]

\* The sample counts drawn: none, half the minimum, and the minimum with its
\* two neighbours.
QualityCounts == {0, MinSamples \div 2, MinSamples - 1, MinSamples, MinSamples + 1}

\* The outcomes drawn: the members of ANSWER_STATE and a value that is none.
QualityOutcomes == ANSWER_STATE \cup {"none"}

QualityPending == 0 - 2

\* The calls of _assessQuality, each before it has run.
QualityCalls ==
    [op : {"assessQuality"}, answerState : QualityOutcomes, delta : 0 .. MaxDelta,
     n : QualityCounts, a : 0 .. MaxSampleTime, b : 0 .. MaxSampleTime,
     numDifferentAnswers : {0, 1, 2}, result : {QualityPending}]

\* The session as constructed, with one call of _assessQuality drawn.
InitQuality ==
    /\ now = 0
    /\ chinesePhrases = [id \in PhraseIds |-> importedRow(id)]
    /\ responseTimes = <<>>
    /\ currentPhrase = None
    /\ phrasesWithSameLogographs = <<>>
    /\ start = 0
    /\ hasChecked = FALSE
    /\ viewState = "SETUP"
    /\ activeLearningLevels = learningLevels
    /\ checkboxes = [l \in Levels |-> TRUE]
    /\ sliders = [l \in Levels |-> maximums[l]]
    /\ ret = NoCall
    /\ fn \in QualityCalls

\* Model._assessQuality runs on the drawn outcome, elapsed time and table.
ApplyAssessQuality ==
    /\ fn.op = "assessQuality"
    /\ fn.result = QualityPending
    /\ fn' = [fn EXCEPT !.result =
                 assessQuality(fn.answerState, fn.delta, sampleTable(fn.n, fn.a, fn.b),
                               fn.numDifferentAnswers)]
    /\ UNCHANGED <<now, storeVars, questionVars, hasChecked, viewState, setupVars, ret>>

NextQuality == ApplyAssessQuality

SpecQuality == InitQuality /\ [][NextQuality]_vars

\* The drawn call of _assessQuality has run.
QualityApplied == fn.op = "assessQuality" /\ fn.result # QualityPending

\* Sum of the drawn table's response times raised to the power p (1 or 2):
\* n \div 2 samples of a seconds and the others of b seconds.
C14_Sum(p) ==
    LET h == fn.n \div 2
    IN  IF p = 1 THEN h * fn.a + (fn.n - h) * fn.b
                 ELSE h * fn.a * fn.a + (fn.n - h) * fn.b * fn.b

\* elapsed <= mean - std and elapsed <= mean + std of the drawn table, std
\* being the population standard deviation; both sides multiplied by n and
\* squared: n * mean = Sum(1), n * n * variance = n * Sum(2) - Sum(1)^2.
C14_Fast ==
    /\ C14_Sum(1) - fn.n * fn.delta >= 0
    /\ fn.n * C14_Sum(2) - C14_Sum(1) * C14_Sum(1)
           <= (C14_Sum(1) - fn.n * fn.delta) * (C14_Sum(1) - fn.n * fn.delta)
C14_NotSlow ==
    \/ fn.n * fn.delta - C14_Sum(1) <= 0
    \/ (fn.n * fn.delta - C14_Sum(1)) * (fn.n * fn.delta - C14_Sum(1))
           <= fn.n * C14_Sum(2) - C14_Sum(1) * C14_Sum(1)

\* The policy table of the quality.
C14_Table ==
    IF fn.answerState = "CORRECT"
    THEN IF fn.n >= 100 THEN (IF C14_Fast THEN 5 ELSE IF C14_NotSlow THEN 4 ELSE 3) ELSE 4
    ELSE IF fn.answerState = "HOMONYM"
    THEN IF fn.n >= 100 THEN (IF C14_Fast THEN 4 ELSE 3) ELSE 3
    ELSE IF fn.answerState = "WRONG"
    THEN IF fn.numDifferentAnswers = 0 THEN 0
         ELSE IF fn.n >= 100 THEN (IF C14_Fast THEN 2 ELSE 1) ELSE 1
    ELSE 2

\* C14: _assessQuality equals the policy table for every outcome, elapsed
\* time and statistics: with at least 100 samples CORRECT gives 5, 4 or 3,
\* HOMONYM 4 or 3, WRONG with alternates 2 or 1 by the elapsed time against
\* mean-std and mean+std; with fewer samples CORRECT gives 4, HOMONYM 3,
\* WRONG with alternates 1; WRONG without alternates gives 0; an unrecognized
\* outcome gives 2.  With 100 samples, half of a and half of b seconds,
\* mean-std is the smaller and mean+std the larger of a and b.
C14_QualityTable ==
    QualityApplied
        => /\ fn.result = C14_Table
           /\ (fn.n = 100 /\ fn.answerState = "CORRECT")
                => LET lo == IF fn.a <= fn.b THEN fn.a ELSE fn.b
                       hi == IF fn.a <= fn.b THEN fn.b ELSE fn.a
                   IN  fn.result = (IF fn.delta <= lo THEN 5
                                    ELSE IF fn.delta <= hi THEN 4 ELSE 3)
           /\ (fn.n = 50 /\ fn.answerState = "CORRECT") => fn.result = 4

\* C14 witness: with exactly 100 samples of mean 3 and deviation 1, a CORRECT
\* answer after 2 seconds is graded 5.
C14_Witness ==
    /\ QualityApplied
    /\ fn.answerState = "CORRECT"
    /\ fn.n = 100 /\ fn.a = 2 /\ fn.b = 4
    /\ fn.delta = 2
    /\ fn.result = 5

\* The tone-marked characters drawn for a span, with their plain vowel and
\* tone digit.
C15_Plain == ("a^1" :> "a") @@ ("A^4" :> "A") @@ ("v^3" :> "v")
C15_Digit == ("a^1" :> "1") @@ ("A^4" :> "4") @@ ("v^3" :> "3")

\* What C15 says of the syllable s.
C15_Converted(s) ==
    LET marked == {k \in 1 .. Len(s) : s[k] \in DOMAIN C15_Plain}
    IN  IF marked = {} THEN s \o <<"5">>
        ELSE LET k == CHOOSE i \in marked : \A j \in marked : i <= j
             IN  SubSeq(s, 1, k - 1) \o <<C15_Plain[s[k]]>> \o SubSeq(s, k + 1, Len(s))
                     \o <<C15_Digit[s[k]]>>

\* C15: for a syllable with no diacritic vowel convertDiacriticToNumber
\* returns the syllable followed by "5"; otherwise the first diacritic vowel
\* is replaced by its plain vowel, the text before and after it is kept, and
\* that diacritic's tone digit is appended.
C15_ToneNumber ==
    TextApplied("convertDiacriticToNumber")
        => fn.result.exc = "none" /\ fn.result.s = C15_Converted(fn.s)

\* What C16 says of the markup from element k on: the converted texts of the
\* spans, in document order.
RECURSIVE C16_Concatenated(_, _)
C16_Concatenated(markup, k) ==
    IF k > Len(markup) THEN <<>>
    ELSE IF markup[k].tag = "span"
    THEN C15_Converted(markup[k].string) \o C16_Concatenated(markup, k + 1)
    ELSE C16_Concatenated(markup, k + 1)

\* C16: getPinyinBetweenTags returns the concatenation, in document order, of
\* convertDiacriticToNumber applied to the text of each span of the markup,
\* and the empty string, never an error, for a markup with no span.
C16_SpansConcatenated ==
    TextApplied("getPinyinBetweenTags")
        => /\ fn.result.exc = "none"
           /\ fn.result.s = C16_Concatenated(fn.markup, 1)
           /\ (\A k \in 1 .. Len(fn.markup) : fn.markup[k].tag # "span")
                => fn.result.s = <<>>

\* ==================================================================
\* Properties of selection and deletion, checked under Spec
\* ==================================================================
\* In the next state the current phrase is a phrase just selected: a
\* non-deleted phrase of an active level with its ordinal within that
\* level's bound (slider value - 1), the clock started, the question open.
SelectedNext ==
    /\ currentPhrase' # None
    /\ LET row == chinesePhrases'[currentPhrase'.id]
       IN  /\ row.deleted = 0
           /\ \E k \in 1 .. Len(activeLearningLevels) :
                /\ row.band = activeLearningLevels[k]
                /\ row.ordinalID <= sliders[activeLearningLevels[k]] - 1
    /\ start' = now
    /\ hasChecked' = FALSE

\* C17: selection has exactly two outcomes: a non-deleted phrase of the
\* requested level within the bound is returned, or, the eligible pool being
\* empty, the controller returns to the setup view; no other failure occurs.
\* So a Begin that leaves the setup view has selected a phrase, and a deletion
\* is followed by a selection or by the return to the setup view.
C17_SelectionOutcomes ==
    [][/\ (viewState = "SETUP" /\ viewState' = "TESTING") => SelectedNext
       /\ (\E id \in PhraseIds : chinesePhrases'[id].deleted # chinesePhrases[id].deleted)
            => (SelectedNext \/ viewState' = "SETUP")]_vars

\* ==================================================================
\* The level draw of Controller.loadNextQuestion, checked under SpecDraw
\* ==================================================================
\* Largest slider value drawn.
MaxSlider == 3

\* HSK_LEVEL, cut to its first three members, in enumeration order.
drawLevels == <<"HSK_1", "HSK_2", "HSK_3">>
DrawLevelSet == {drawLevels[k] : k \in 1 .. Len(drawLevels)}

DrawPending == "pending"

\* The level draws, each before the loop has run: the checked levels are a
\* non-empty prefix of the levels (Controller.manageLearningLevels), every
\* slider stands at 1 or more (View sets each slider's minimum to 1), and r is
\* random.randint(1, sum of the active levels' slider values).
DrawCalls ==
    {c \in [op : {"drawLevel"},
            active : {SubSeq(drawLevels, 1, n) : n \in 1 .. Len(drawLevels)},
            sliderValue : [DrawLevelSet -> 1 .. MaxSlider],
            r : 1 .. Len(drawLevels) * MaxSlider,
            level : {DrawPending}] :
        c.r <= sumSliders(c.active, c.sliderValue)}

\* The session as constructed, with one level draw drawn.
InitDraw ==
    /\ now = 0
    /\ chinesePhrases = [id \in PhraseIds |-> importedRow(id)]
    /\ responseTimes = <<>>
    /\ currentPhrase = None
    /\ phrasesWithSameLogographs = <<>>
    /\ start = 0
    /\ hasChecked = FALSE
    /\ viewState = "SETUP"
    /\ activeLearningLevels = learningLevels
    /\ checkboxes = [l \in Levels |-> TRUE]
    /\ sliders = [l \in Levels |-> maximums[l]]
    /\ ret = NoCall
    /\ fn \in DrawCalls

\* The level loop of Controller.loadNextQuestion runs on the drawn r.
ApplyDrawLevel ==
    /\ fn.op = "drawLevel"
    /\ fn.level = DrawPending
    /\ fn' = [fn EXCEPT !.level = drawLevel(fn.active, fn.sliderValue, 1, fn.r)]
    /\ UNCHANGED <<now, storeVars, questionVars, hasChecked, viewState, setupVars, ret>>

NextDraw == ApplyDrawLevel

SpecDraw == InitDraw /\ [][NextDraw]_vars

DrawApplied == fn.op = "drawLevel" /\ fn.level # DrawPending

\* Sum of the slider values of the first k active levels.
C18_Cumulative(k) == sumSliders(SubSeq(fn.active, 1, k), fn.sliderValue)

C19_Ids(seq) == {seq[k] : k \in 1 .. Len(seq)}

\* No soft-deleted phrase is among the siblings held for the current phrase,
\* nor among the siblings or the same-pronunciation alternates the queries
\* return for any phrase on the table as it stands.
C19_NoDeletedRelatives ==
    /\ \A id \in C19_Ids(phrasesWithSameLogographs) : chinesePhrases[id].deleted = 0
    /\ \A o \in PhraseIds :
         /\ \A id \in C19_Ids(getPhrasesWithSameLogographs(
                                  chinesePhrases, chinesePhrases[o].simplified, o)) :
              chinesePhrases[id].deleted = 0
         /\ \A id \in C19_Ids(getPhrasesWithSamePinyin(
                                  chinesePhrases, chinesePhrases[o].pinyin, o)) :
              chinesePhrases[id].deleted = 0

\* One step of the session: a deleted phrase stays deleted; a step that
\* selects (the current phrase or the start of its clock changes) returns a
\* phrase that is not deleted; a step that changes a deleted flag sets that
\* one flag of the current phrase and changes nothing else of the table and
\* no response sample.
C19_DeleteStep ==
    /\ \A id \in PhraseIds :
         chinesePhrases[id].deleted = 1 => chinesePhrases'[id].deleted = 1
    /\ (currentPhrase' # currentPhrase \/ start' # start)
         => /\ currentPhrase' # None
            /\ chinesePhrases'[currentPhrase'.id].deleted = 0
    /\ \A id \in PhraseIds :
         chinesePhrases'[id].deleted # chinesePhrases[id].deleted
           => /\ currentPhrase # None
              /\ currentPhrase.id = id
              /\ chinesePhrases' = [chinesePhrases EXCEPT ![id].deleted = 1]
              /\ responseTimes' = responseTimes

\* C19: once a phrase is soft-deleted no later selection returns it and it
\* never appears among another phrase's siblings or same-pronunciation
\* alternates; the soft-delete only sets the deleted flag, leaving the record's
\* other fields and all response samples unchanged.
C19_SoftDelete == [](C19_NoDeletedRelatives) /\ [][C19_DeleteStep]_vars

\* A phrase has been deleted and a sibling of it (same logographs) selected
\* afterwards, while response samples are stored.
C19_Witness ==
    /\ currentPhrase # None
    /\ chinesePhrases[currentPhrase.id].deleted = 0
    /\ Len(responseTimes) > 0
    /\ \E id \in PhraseIds :
         /\ chinesePhrases[id].deleted = 1
         /\ id # currentPhrase.id
         /\ chinesePhrases[id].simplified = currentPhrase.simplified
         /\ id \notin C19_Ids(phrasesWithSameLogographs)

\* ==================================================================
\* Failing storage statements, checked under SpecStorage
\* ==================================================================
\* Database._execQueryNoResults: QSqlQuery.exec() returns False for a
\* statement that fails, and a failed statement leaves the data as it was.
execQueryNoResults(ok, before, after) ==
    [result |-> ok, data |-> IF ok THEN after ELSE before]

\* The names of the calls among `calls` (pairs of name and result) that
\* returned False.
returnedFalse(calls) == {c[1] : c \in {d \in calls : ~d[2]}}

\* Model.checkAnswer where updatePhrase's statement succeeds iff okUpdate and
\* insertResponseTime's iff okInsert; c is what checkAnswer does when both
\* succeed.  _updateDatabase calls both and drops what they return, so the
\* value returned is c's; `failed` names the calls that returned False.
checkAnswerStorage(c, table, samples, okUpdate, okInsert) ==
    IF c.exc # "none"
    THEN [exc |-> c.exc, answer |-> c.answer, quality |-> c.quality,
          table |-> table, samples |-> samples, failed |-> {}]
    ELSE [exc |-> "none", answer |-> c.answer, quality |-> c.quality,
          table |-> execQueryNoResults(okUpdate, table, c.table).data,
          samples |-> execQueryNoResults(okInsert, samples, c.samples).data,
          failed |-> returnedFalse({<<"updatePhrase", okUpdate>>,
                                    <<"insertResponseTime", okInsert>>})]

\* Model.deleteEntry where deletePhrase's statement succeeds iff okDelete: the
\* value deletePhrase returns is dropped and None is returned.
deleteEntryStorage(cp, table, samples, okDelete) ==
    IF cp = None
    THEN [exc |-> "AttributeError", answer |-> "none", quality |-> NoQuality,
          table |-> table, samples |-> samples, failed |-> {}]
    ELSE [exc |-> "none", answer |-> "none", quality |-> NoQuality,
          table |-> execQueryNoResults(okDelete, table, deletePhrase(table, cp.id)).data,
          samples |-> samples,
          failed |-> returnedFalse({<<"deletePhrase", okDelete>>})]

\* Model.checkAnswer at time 0 on phrase id, selected at time 0 from the
\* imported table, with a reading of no row typed: the phrase has then been
\* answered once (WRONG).
answeredOnce(id) ==
    checkAnswerModel(ChineseDataWithStats(importedRow(id)),
                     getPhrasesWithSameLogographs([i \in PhraseIds |-> importedRow(i)],
                                                  importedSimplified[id], id),
                     0, 0, [i \in PhraseIds |-> importedRow(i)], <<>>,
                     <<"t", "a", "2">>, FALSE, 0)

\* The tables a call starts from: as imported, or with the phrase answered once.
storageTable(id, seen) ==
    IF seen THEN answeredOnce(id).table ELSE [i \in PhraseIds |-> importedRow(i)]
storageSamples(id, seen) ==
    IF seen THEN answeredOnce(id).samples ELSE <<>>

StoragePending ==
    [exc |-> "pending", answer |-> "none", quality |-> NoQuality,
     table |-> <<>>, samples |-> <<>>, failed |-> {}]

\* The calls of Model.checkAnswer and Model.deleteEntry, each before it has
\* run: the phrase selected at time 0, whether it was answered before, the
\* text typed, the time of the call, and which statements succeed.
StorageCalls ==
    [op : {"checkAnswer"}, phrase : PhraseIds, seen : BOOLEAN,
     userInput : Inputs \ {<<>>}, now : 0 .. MaxTime,
     okUpdate : BOOLEAN, okInsert : BOOLEAN, okDelete : {TRUE},
     result : {StoragePending}]
    \cup
    [op : {"deleteEntry"}, phrase : PhraseIds, seen : BOOLEAN,
     userInput : {<<"t", "a", "1">>}, now : 0 .. MaxTime,
     okUpdate : {TRUE}, okInsert : {TRUE}, okDelete : BOOLEAN,
     result : {StoragePending}]

\* The session as constructed, with one storage call drawn.
InitStorage ==
    /\ now = 0
    /\ chinesePhrases = [id \in PhraseIds |-> importedRow(id)]
    /\ responseTimes = <<>>
    /\ currentPhrase = None
    /\ phrasesWithSameLogographs = <<>>
    /\ start = 0
    /\ hasChecked = FALSE
    /\ viewState = "SETUP"
    /\ activeLearningLevels = learningLevels
    /\ checkboxes = [l \in Levels |-> TRUE]
    /\ sliders = [l \in Levels |-> maximums[l]]
    /\ ret = NoCall
    /\ fn \in StorageCalls

\* Model.checkAnswer runs on the drawn phrase and text.
ApplyCheckAnswer ==
    /\ fn.op = "checkAnswer"
    /\ fn.result = StoragePending
    /\ \E table \in {storageTable(fn.phrase, fn.seen)},
          samples \in {storageSamples(fn.phrase, fn.seen)} :
         \E c \in {checkAnswerModel(
                       ChineseDataWithStats(table[fn.phrase]),
                       getPhrasesWithSameLogographs(table, table[fn.phrase].simplified,
                                                    fn.phrase),
                       0, fn.now, table, samples, fn.userInput, FALSE, 0)} :
           fn' = [fn EXCEPT !.result =
                      checkAnswerStorage(c, table, samples, fn.okUpdate, fn.okInsert)]
    /\ UNCHANGED <<now, storeVars, questionVars, hasChecked, viewState, setupVars, ret>>

\* Model.deleteEntry runs on the drawn phrase.
ApplyDeleteEntry ==
    /\ fn.op = "deleteEntry"
    /\ fn.result = StoragePending
    /\ \E table \in {storageTable(fn.phrase, fn.seen)},
          samples \in {storageSamples(fn.phrase, fn.seen)} :
         fn' = [fn EXCEPT !.result =
                    deleteEntryStorage(ChineseDataWithStats(table[fn.phrase]),
                                       table, samples, fn.okDelete)]
    /\ UNCHANGED <<now, storeVars, questionVars, hasChecked, viewState, setupVars, ret>>

NextStorage == ApplyCheckAnswer \/ ApplyDeleteEntry

SpecStorage == InitStorage /\ [][NextStorage]_vars

StorageApplied == fn.result.exc # "pending"

\* C20: a storage failure during answer submission or deletion is never
\* swallowed: when updatePhrase, insertResponseTime or deletePhrase reports
\* failure the call raises, and checkAnswer returns no (outcome, quality).
C20_FailureSurfaced ==
    (StorageApplied /\ fn.result.failed # {})
        => /\ fn.result.exc # "none"
           /\ fn.result.answer = "none"

\* ==================================================================
\* Properties of the question cycle, checked under Spec
\* ==================================================================
\* The step writes a phrase update (any column but `deleted`) or a sample.
C21_Wrote ==
    \/ responseTimes' # responseTimes
    \/ \E id \in PhraseIds :
         [chinesePhrases'[id] EXCEPT !.deleted = chinesePhrases[id].deleted]
            # chinesePhrases[id]

\* C21: one question is open at a time and it is graded at most once: a step
\* writes a phrase update or a sample only for a question not yet checked,
\* marks it checked, writes one sample and the current phrase's row only, and
\* selects nothing; a checked question becomes unchecked only by a selection;
\* a Check on a checked question changes nothing.
C21_GradedAtMostOnce ==
    [][/\ C21_Wrote
            => /\ ~hasChecked
               /\ hasChecked'
               /\ <<currentPhrase, phrasesWithSameLogographs, start>>'
                     = <<currentPhrase, phrasesWithSameLogographs, start>>
               /\ Len(responseTimes') = Len(responseTimes) + 1
               /\ SubSeq(responseTimes', 1, Len(responseTimes)) = responseTimes
               /\ \A id \in PhraseIds \ {currentPhrase.id} :
                    chinesePhrases'[id] = chinesePhrases[id]
       /\ (hasChecked /\ ~hasChecked')
            => /\ currentPhrase' # None
               /\ start' = now
               /\ ~C21_Wrote
       /\ hasChecked => ret' = ret]_vars

\* A question has been graded and stored, and a second question, selected
\* later, has been graded and stored as well.
C21_Witness ==
    /\ hasChecked
    /\ ret.n = 2
    /\ Len(responseTimes) = 2
    /\ responseTimes[1].timeStamp # responseTimes[2].timeStamp

\* C22: in every reachable state each stored phrase's dueDate and
\* lastTimeSeen is a well-formed timestamp or the never-seen sentinel "0"; a
\* phrase imported and never answered carries the sentinel.
C22_TimestampOrSentinel ==
    \A id \in PhraseIds :
        /\ chinesePhrases[id].lastTimeSeen.kind \in {"ts", "0"}
        /\ chinesePhrases[id].dueDate.kind \in {"ts", "0"}
        /\ chinesePhrases[id].lastTimeSeen.kind = "0"
             <=> chinesePhrases[id].dueDate.kind = "0"

\* ==================================================================
\* Model construction, checked under SpecInit
\* ==================================================================
\* Largest new-unseen-card chance drawn, in hundredths; the chances drawn run
\* from -MaxChance to MaxChance.
MaxChance == 150

\* Model.__init__ as far as newUnseenCardChance (in hundredths) goes: the
\* exception raised, or the chance the constructed Model holds.
modelInit(newUnseenCardChance) ==
    IF newUnseenCardChance >= 100
    THEN [exc |-> "ValueError", newUnseenCardChance |-> 0]
    ELSE [exc |-> "none", newUnseenCardChance |-> newUnseenCardChance]

InitPending == [exc |-> "pending", newUnseenCardChance |-> 0]

\* The constructions of Model, each before it has run.
InitCalls ==
    [op : {"init"}, newUnseenCardChance : (0 - MaxChance) .. MaxChance,
     result : {InitPending}]

\* One construction of Model drawn; nothing else is constructed yet.
InitInit ==
    /\ now = 0
    /\ chinesePhrases = [id \in PhraseIds |-> importedRow(id)]
    /\ responseTimes = <<>>
    /\ currentPhrase = None
    /\ phrasesWithSameLogographs = <<>>
    /\ start = 0
    /\ hasChecked = FALSE
    /\ viewState = "SETUP"
    /\ activeLearningLevels = learningLevels
    /\ checkboxes = [l \in Levels |-> TRUE]
    /\ sliders = [l \in Levels |-> maximums[l]]
    /\ ret = NoCall
    /\ fn \in InitCalls

\* Model.__init__ runs with the drawn chance.
ApplyModelInit ==
    /\ fn.op = "init"
    /\ fn.result = InitPending
    /\ fn' = [fn EXCEPT !.result = modelInit(fn.newUnseenCardChance)]
    /\ UNCHANGED <<now, storeVars, questionVars, hasChecked, viewState, setupVars, ret>>

NextInit == ApplyModelInit

SpecInit == InitInit /\ [][NextInit]_vars

InitApplied == fn.op = "init" /\ fn.result # InitPending

\* C23: construction accepts a chance only between 0 and 1: a chance >= 1 or
\* < 0 is rejected with ValueError, so every constructed Model has
\* 0 <= newUnseenCardChance < 1.
C23_ChanceValidated ==
    InitApplied =>
        /\ (fn.newUnseenCardChance >= 100 \/ fn.newUnseenCardChance < 0)
             => fn.result.exc = "ValueError"
        /\ fn.result.exc = "none"
             => (0 <= fn.result.newUnseenCardChance /\ fn.result.newUnseenCardChance < 100)

\* ==================================================================
\* The level check boxes, checked under SpecLevels
\* ==================================================================
\* Largest number of check-box clicks in a row.
MaxClicks == 3

\* Position of a level in HSK_LEVEL's order.
drawLevelIndex(level) == CHOOSE k \in 1 .. Len(drawLevels) : drawLevels[k] = level

\* The levels, in order, that `isActive` holds for: what the loop of
\* Controller._read_ini appends to activeLearningLevels.
RECURSIVE activeFromIni(_, _)
activeFromIni(isActive, k) ==
    IF k > Len(drawLevels) THEN <<>>
    ELSE IF isActive[drawLevels[k]]
    THEN <<drawLevels[k]>> \o activeFromIni(isActive, k + 1)
    ELSE activeFromIni(isActive, k + 1)

\* Controller.manageLearningLevels(level) after a click that found the box
\* in state boxes[level] and toggled it: the active levels and the boxes.
manageLearningLevels(boxes, level) ==
    IF ~boxes[level]
    THEN \* newly checked: the lower boxes are checked
         [active |-> SubSeq(drawLevels, 1, drawLevelIndex(level)),
          checkboxes |-> [l \in DrawLevelSet |->
                            IF drawLevelIndex(l) <= drawLevelIndex(level)
                            THEN TRUE ELSE boxes[l]]]
    ELSE \* newly unchecked: the higher boxes are unchecked
         [active |-> SubSeq(drawLevels, 1, drawLevelIndex(level) - 1),
          checkboxes |-> [l \in DrawLevelSet |->
                            IF drawLevelIndex(l) >= drawLevelIndex(level)
                            THEN FALSE ELSE boxes[l]]]

\* The setup view as Controller.__init__ leaves it: _read_ini takes each
\* level's IsActive and EndRange from the ini file (the defaults are all
\* levels active) and _initializeSetupView sets each box to whether its level
\* is active and each slider to the level's end range.
LevelsCalls ==
    {[op |-> "click", active |-> activeFromIni(isActive, 1), checkboxes |-> isActive,
      sliderValue |-> endRange, level |-> "none", wasChecked |-> FALSE, clicks |-> 0] :
        isActive \in [DrawLevelSet -> BOOLEAN],
        endRange \in [DrawLevelSet -> 1 .. MaxSlider]}

\* The session as constructed, with the setup view's levels drawn.
InitLevels ==
    /\ now = 0
    /\ chinesePhrases = [id \in PhraseIds |-> importedRow(id)]
    /\ responseTimes = <<>>
    /\ currentPhrase = None
    /\ phrasesWithSameLogographs = <<>>
    /\ start = 0
    /\ hasChecked = FALSE
    /\ viewState = "SETUP"
    /\ activeLearningLevels = learningLevels
    /\ checkboxes = [l \in Levels |-> TRUE]
    /\ sliders = [l \in Levels |-> maximums[l]]
    /\ ret = NoCall
    /\ fn \in LevelsCalls

\* A click on the check box of `level`.
ClickLevel(level) ==
    /\ fn.op = "click"
    /\ fn.clicks < MaxClicks
    /\ \E m \in {manageLearningLevels(fn.checkboxes, level)} :
         fn' = [op |-> "click", active |-> m.active, checkboxes |-> m.checkboxes,
                sliderValue |-> fn.sliderValue, level |-> level,
                wasChecked |-> fn.checkboxes[level], clicks |-> fn.clicks + 1]
    /\ UNCHANGED <<now, storeVars, questionVars, hasChecked, viewState, setupVars, ret>>

NextLevels == \E level \in DrawLevelSet : ClickLevel(level)

SpecLevels == InitLevels /\ [][NextLevels]_vars

\* The levels of activeLearningLevels.
C24_Active == {fn.active[k] : k \in 1 .. Len(fn.active)}

\* C24: after a click on level k, from any initial configuration: if k was
\* newly checked, every level up to k is checked and active and every level
\* above k is unchecked and inactive; if k was newly unchecked, k and every
\* level above it is unchecked and inactive; a level's box is checked exactly
\* when the level is active.
C24_GapFreePrefix ==
    (fn.op = "click" /\ fn.clicks > 0) =>
        /\ \A l \in DrawLevelSet :
             IF ~fn.wasChecked
             THEN IF drawLevelIndex(l) <= drawLevelIndex(fn.level)
                  THEN fn.checkboxes[l] /\ l \in C24_Active
                  ELSE ~fn.checkboxes[l] /\ l \notin C24_Active
             ELSE drawLevelIndex(l) >= drawLevelIndex(fn.level)
                    => (~fn.checkboxes[l] /\ l \notin C24_Active)
        /\ \A l \in DrawLevelSet : fn.checkboxes[l] <=> l \in C24_Active

\* ==================================================================
\* The steps of one answer submission, checked under SpecOrder
\* ==================================================================
\* The row of phrase 1 after it was answered WRONG often enough, at time 0,
\* for its ease factor to have reached the floor.
answeredOften(row) ==
    [row EXCEPT !.lastTimeSeen = formatTimeToStr(0),
                !.dueDate = formatTimeToStr(TicksPerDay),
                !.easeFactor = MinEase]

\* The number of samples answers to phrase 1 have left, for n samples in all.
orderOthers(id, seen, n) == Max(n - Len(storageSamples(id, seen)), 0)

\* The store a submission starts from: phrase `id` as imported or answered
\* once, and the samples made up to n by answers to phrase 1.
orderTable(id, seen, n) ==
    IF orderOthers(id, seen, n) = 0 THEN storageTable(id, seen)
    ELSE [storageTable(id, seen) EXCEPT ![1] = answeredOften(@)]
orderSamples(id, seen, n, a, b) ==
    storageSamples(id, seen) \o sampleTable(orderOthers(id, seen, n), a, b)

OrderPending ==
    [exc |-> "pending", answer |-> "none", quality |-> NoQuality,
     table |-> <<>>, samples |-> <<>>]

\* The submissions drawn, each before it has run: phrase 2 or 3 selected at
\* time 0, the text typed, the time of the submission, and the samples stored.
OrderCalls ==
    [op : {"checkAnswer"}, phrase : {2, 3}, seen : BOOLEAN,
     userInput : Inputs \ {<<>>}, now : 0 .. TicksPerDay - 1,
     n : QualityCounts, a : 0 .. MaxSampleTime, b : 0 .. MaxSampleTime,
     result : {OrderPending}]

\* The session as constructed, with one submission drawn.
InitOrder ==
    /\ now = 0
    /\ chinesePhrases = [id \in PhraseIds |-> importedRow(id)]
    /\ responseTimes = <<>>
    /\ currentPhrase = None
    /\ phrasesWithSameLogographs = <<>>
    /\ start = 0
    /\ hasChecked = FALSE
    /\ viewState = "SETUP"
    /\ activeLearningLevels = learningLevels
    /\ checkboxes = [l \in Levels |-> TRUE]
    /\ sliders = [l \in Levels |-> maximums[l]]
    /\ ret = NoCall
    /\ fn \in OrderCalls

\* Model.checkAnswer runs on the drawn phrase, text and store.
ApplyOrder ==
    /\ fn.op = "checkAnswer"
    /\ fn.result = OrderPending
    /\ \E table \in {orderTable(fn.phrase, fn.seen, fn.n)},
          samples \in {orderSamples(fn.phrase, fn.seen, fn.n, fn.a, fn.b)} :
         fn' = [fn EXCEPT !.result =
                   checkAnswerModel(
                       ChineseDataWithStats(table[fn.phrase]),
                       getPhrasesWithSameLogographs(table, table[fn.phrase].simplified,
                                                    fn.phrase),
                       0, fn.now, table, samples, fn.userInput, FALSE, 0)]
    /\ UNCHANGED <<now, storeVars, questionVars, hasChecked, viewState, setupVars, ret>>

NextOrder == ApplyOrder

SpecOrder == InitOrder /\ [][NextOrder]_vars

OrderApplied == fn.result.exc # "pending"

\* The store before the submission, and the phrase as it was selected.
C25_Table == orderTable(fn.phrase, fn.seen, fn.n)
C25_Samples == orderSamples(fn.phrase, fn.seen, fn.n, fn.a, fn.b)
C25_Phrase == ChineseDataWithStats(C25_Table[fn.phrase])

\* The quality _assessQuality gives the submission's outcome over `samples`.
C25_QualityOver(samples) ==
    assessQuality(fn.result.answer, fn.now, samples,
                  Len(getPhrasesWithSamePinyin(C25_Table, C25_Phrase.pinyin, fn.phrase)))

\* The grade of an outcome without statistics.
C25_Fallback ==
    CASE fn.result.answer = "CORRECT" -> {4}
      [] fn.result.answer = "HOMONYM" -> {3}
      [] OTHER -> {0, 1}

\* C25: within one submission the quality is assessed from the samples
\* recorded before this answer, then the phrase's ease factor and due date
\* are updated, and only then is the new sample appended; with fewer than 100
\* samples before it an answer is graded with the insufficient-data fallback.
C25_AssessUpdateAppend ==
    OrderApplied =>
        IF fn.result.exc = "none"
        THEN /\ fn.result.quality = C25_QualityOver(C25_Samples)
             /\ Len(C25_Samples) < MinSamples => fn.result.quality \in C25_Fallback
             /\ fn.result.table[fn.phrase].easeFactor
                   = updateEaseFactor(C25_Phrase.easeFactor, fn.result.quality)
             /\ fn.result.table[fn.phrase].dueDate
                   = formatTimeToStr(updateDueDate(C25_Phrase.lastTimeSeen,
                                                   C25_Phrase.dueDate,
                                                   C25_Phrase.easeFactor,
                                                   fn.result.quality, fn.now, 0).t)
             /\ fn.result.samples
                   = Append(C25_Samples,
                            [chinesePhraseID |-> fn.phrase,
                             timeStamp |-> formatTimeToStr(fn.now),
                             responseTime |-> fn.now])
        ELSE /\ fn.result.table = C25_Table
             /\ fn.result.samples = C25_Samples

\* The hundredth answer of a store, graded 4 by the fallback, where the
\* statistics over the samples with this answer's own time would give 5.
C25_Witness ==
    /\ OrderApplied
    /\ fn.result.exc = "none"
    /\ Len(C25_Samples) = MinSamples - 1
    /\ fn.result.answer = "CORRECT"
    /\ fn.result.quality = 4
    /\ C25_QualityOver(fn.result.samples) = 5

\* ==================================================================
\* The elapsed time of an answer, checked under SpecElapsed
\* ==================================================================
\* The submissions drawn, each before it has run: phrase 3, answered once at
\* time 0, is selected at time `start` and answered at time `now`, over a
\* store of n samples.
ElapsedCalls ==
    {c \in [op : {"checkAnswer"}, phrase : {3}, seen : {TRUE},
            userInput : {<<"t", "a", "1">>, <<"t", "a", "2">>},
            start : 0 .. MaxFnTime, now : 0 .. MaxFnTime,
            n : {1, MinSamples}, a : {1}, b : {2},
            result : {OrderPending}] :
        c.start <= c.now}

\* The session as constructed, with one submission drawn.
InitElapsed ==
    /\ now = 0
    /\ chinesePhrases = [id \in PhraseIds |-> importedRow(id)]
    /\ responseTimes = <<>>
    /\ currentPhrase = None
    /\ phrasesWithSameLogographs = <<>>
    /\ start = 0
    /\ hasChecked = FALSE
    /\ viewState = "SETUP"
    /\ activeLearningLevels = learningLevels
    /\ checkboxes = [l \in Levels |-> TRUE]
    /\ sliders = [l \in Levels |-> maximums[l]]
    /\ ret = NoCall
    /\ fn \in ElapsedCalls

\* Model.checkAnswer runs on the phrase selected at fn.start.
ApplyElapsed ==
    /\ fn.op = "checkAnswer"
    /\ fn.result = OrderPending
    /\ \E table \in {orderTable(fn.phrase, fn.seen, fn.n)},
          samples \in {orderSamples(fn.phrase, fn.seen, fn.n, fn.a, fn.b)} :
         fn' = [fn EXCEPT !.result =
                   checkAnswerModel(
                       ChineseDataWithStats(table[fn.phrase]),
                       getPhrasesWithSameLogographs(table, table[fn.phrase].simplified,
                                                    fn.phrase),
                       fn.start, fn.now, table, samples, fn.userInput, FALSE, 0)]
    /\ UNCHANGED <<now, storeVars, questionVars, hasChecked, viewState, setupVars, ret>>

NextElapsed == ApplyElapsed

SpecElapsed == InitElapsed /\ [][NextElapsed]_vars

\* C26: the elapsed time used to grade an answer and the elapsed time stored
\* in its sample both equal the full duration from selection to submission,
\* for every duration including one of a day or more.
C26_FullDuration ==
    (OrderApplied /\ fn.result.exc = "none") =>
        /\ fn.result.samples[Len(fn.result.samples)].responseTime = fn.now - fn.start
        /\ fn.result.quality
              = assessQuality(fn.result.answer, fn.now - fn.start,
                              orderSamples(fn.phrase, fn.seen, fn.n, fn.a, fn.b),
                              Len(getPhrasesWithSamePinyin(
                                      orderTable(fn.phrase, fn.seen, fn.n),
                                      importedPinyin[fn.phrase], fn.phrase)))

\* ==================================================================
\* Repeated rescheduling of one phrase, checked under SpecSchedule
\* ==================================================================
\* Largest number of answers given to the phrase.
MaxReviews == 3

\* The time that passes between two answers: none, a quarter day, a day.
ReviewSteps == {0, 1, TicksPerDay}

\* The outcomes and the qualities _assessQuality can give each.
ReviewGrades ==
    {<<"CORRECT", 3>>, <<"CORRECT", 4>>, <<"CORRECT", 5>>, <<"HOMONYM", 3>>,
     <<"HOMONYM", 4>>, <<"WRONG", 0>>, <<"WRONG", 1>>, <<"WRONG", 2>>}

\* Phrase 1 as imported, no answer given yet.
ScheduleStart ==
    [op |-> "reschedule", table |-> [id \in PhraseIds |-> importedRow(id)],
     now |-> 0, reviews |-> 0, exc |-> "none"]

InitSchedule ==
    /\ now = 0
    /\ chinesePhrases = [id \in PhraseIds |-> importedRow(id)]
    /\ responseTimes = <<>>
    /\ currentPhrase = None
    /\ phrasesWithSameLogographs = <<>>
    /\ start = 0
    /\ hasChecked = FALSE
    /\ viewState = "SETUP"
    /\ activeLearningLevels = learningLevels
    /\ checkboxes = [l \in Levels |-> TRUE]
    /\ sliders = [l \in Levels |-> maximums[l]]
    /\ ret = NoCall
    /\ fn = ScheduleStart

\* Phrase 1 is selected and answered after `step` more time, the answer being
\* graded g: Model._updateDatabase from the assessed quality on.
Reschedule(g, step, fp) ==
    /\ fn.op = "reschedule"
    /\ fn.reviews < MaxReviews
    /\ \E u \in {updateDatabaseWith(ChineseDataWithStats(fn.table[1]), fn.now + step,
                                    fn.table, <<>>, g[1] = "CORRECT", 0, g[2], fp)} :
         fn' = [op |-> "reschedule", table |-> u.table, now |-> fn.now + step,
                reviews |-> fn.reviews + 1, exc |-> u.exc]
    /\ UNCHANGED <<now, storeVars, questionVars, hasChecked, viewState, setupVars, ret>>

NextSchedule ==
    \E g \in ReviewGrades, step \in ReviewSteps, fp \in {0, 1} : Reschedule(g, step, fp)

SpecSchedule == InitSchedule /\ [][NextSchedule]_vars

\* The stored row of the phrase, and whether an answer to it was stored.
C27_Row == fn.table[1]
C27_Answered == fn.op = "reschedule" /\ C27_Row.lastTimeSeen.kind = "ts"

\* C27: every phrase answered at least once has a due date at least 1 day
\* after its lastTimeSeen: the interval computed at its next rescheduling is
\* >= 1, the multiplied interval int(interval * newEase) is >= 1, and a new
\* due date is never at or before the time of the answer.
C27_DueAfterSeen ==
    C27_Answered =>
        /\ C27_Row.dueDate.kind = "ts"
        /\ C27_Row.dueDate.t >= C27_Row.lastTimeSeen.t + TicksPerDay
        /\ intervalDays(C27_Row.dueDate.t, C27_Row.lastTimeSeen.t) >= 1
        /\ \A q \in {3, 4, 5}, fp \in {0, 1} :
             intOfProduct(intervalDays(C27_Row.dueDate.t, C27_Row.lastTimeSeen.t),
                          updateEaseFactor(C27_Row.easeFactor, q), fp) >= 1
        /\ fn.exc = "none" => C27_Row.lastTimeSeen.t = fn.now
        /\ C27_Row.dueDate.t > C27_Row.lastTimeSeen.t

\* The third answer multiplied an interval of six days by the new ease.
C27_Witness ==
    /\ C27_Answered
    /\ fn.reviews = 3
    /\ fn.exc = "none"
    /\ C27_Row.dueDate.t - C27_Row.lastTimeSeen.t > 6 * TicksPerDay

\* The ease factor of the answered phrase before and after the submission.
C28_EaseBefore == C25_Table[fn.phrase].easeFactor
C28_EaseAfter == fn.result.table[fn.phrase].easeFactor

\* C28: while fewer than 100 samples have been recorded in total no answer is
\* graded 5 or 2, so the ease factor does not increase and never exceeds its
\* import value 2.5; an ease factor rises only on a CORRECT answer graded
\* with 100 samples or more recorded before it.
C28_NoRiseBeforeHundred ==
    (OrderApplied /\ fn.result.exc = "none") =>
        /\ Len(C25_Samples) < MinSamples
             => /\ fn.result.quality \notin {5, 2}
                /\ C28_EaseAfter <= C28_EaseBefore
                /\ C28_EaseAfter <= DefaultEase
        /\ C28_EaseAfter > C28_EaseBefore
             => /\ fn.result.answer = "CORRECT"
                /\ Len(C25_Samples) >= MinSamples
        /\ \A id \in PhraseIds \ {fn.phrase} :
             fn.result.table[id].easeFactor = C25_Table[id].easeFactor

\* A fast CORRECT answer with 99 samples recorded leaves the ease factor, which
\* an earlier WRONG answer had lowered, where it was.
C28_Witness ==
    /\ OrderApplied
    /\ fn.result.exc = "none"
    /\ Len(C25_Samples) = MinSamples - 1
    /\ fn.result.answer = "CORRECT"
    /\ atMostAvgMinusStd(fn.now, C25_Samples)
    /\ C28_EaseBefore < DefaultEase
    /\ C28_EaseAfter = C28_EaseBefore

\* ==================================================================
\* Revealing without grading, checked under Spec
\* ==================================================================
\* The step writes no phrase record and no sample, grades nothing and keeps
\* the question.
C29_NothingGraded == UNCHANGED <<storeVars, questionVars, ret>>

\* C29: revealing the answer without grading (Next before any Check, or
\* Enter with empty input) changes no phrase record and adds no sample, and
\* marks the question checked, so that every later Check or Enter on it
\* grades nothing until a new question is loaded; a Check with empty input
\* changes nothing and does not mark the question checked.
C29_RevealGradesNothing ==
    [][/\ (~hasChecked /\ NextQuestion) => (hasChecked' /\ C29_NothingGraded)
       /\ (~hasChecked /\ ReturnPressed(<<>>)) => (hasChecked' /\ C29_NothingGraded)
       /\ hasChecked => (ret' = ret /\ ~C21_Wrote)
       /\ (hasChecked /\ ~hasChecked') => (currentPhrase' # None /\ start' = now)
       /\ Check(<<>>) => UNCHANGED vars]_vars

\* A question has been revealed without any answer ever submitted.
C29_Witness ==
    /\ viewState = "TESTING"
    /\ currentPhrase # None
    /\ hasChecked
    /\ ret.n = 0
    /\ responseTimes = <<>>

\* C30: whenever the testing view is shown after a handler has finished, the
\* current phrase is set and is not soft-deleted, and no answer has been
\* submitted against a missing phrase.
C30_CurrentPhraseLive ==
    /\ viewState = "TESTING"
         => /\ currentPhrase # None
            /\ chinesePhrases[currentPhrase.id].deleted = 0
    /\ ret.exc # "AttributeError"

=============================================================================
